---- MODULE Spec2Model ----
(***************************************************************************)
(* SecureGarv-Admin: the content panels of the portfolio dashboard, each   *)
(* a React component that mirrors one remote collection in local state.    *)
(*                                                                         *)
(* One behaviour follows one mounted panel (only one panel is mounted at a *)
(* time).  A handler is cut at its awaits: the part up to the fetch is the *)
(* action named after the handler, the part after the await is the action  *)
(* with the suffix Done.  A request in flight carries the closure values   *)
(* its continuation will read (cap), because a handler keeps the state of  *)
(* the render in which it was started.  The content API is a conventional  *)
(* REST store; any request may also fail, with a non-2xx response that has *)
(* a JSON body ("http") or with a rejected fetch / unreadable body ("net").*)
(***************************************************************************)
EXTENDS Integers, Sequences, FiniteSets, TLC

\* ---- bounds -------------------------------------------------------------
NumInitial == 2      \* records in the remote collection when the panel mounts
MaxOps == 2          \* mutation requests issued over one behaviour
MaxInFlight == 2     \* requests in flight that the user or the timer may add to

Stored == "a"                    \* the name of the records the store starts with
Names == {"b"}                   \* non-empty values typed into a required field
Texts == {"t"}                   \* non-empty values of a second required field
Ratings == {0, 5, 6}             \* form ratings: below, inside and above 1..5

Panels == {"reviews", "experience", "skills", "skillsModal", "messages",
           "blog", "education", "hero", "heroV1"}

\* HeroSection.tsx holds the editor twice: without the About fields and the
\* API key ("heroV1") and with them ("hero")
HeroPanels == {"hero", "heroV1"}

\* Text typed into the resume box: nothing, a blank, a word, a URL
Links == {<<>>, <<" ">>, <<"x">>, <<"h", ":", "x">>}

VARIABLES
  panel,        \* the mounted panel
  server,       \* the remote collection, in the order GET returns it
  nextId,       \* the identifier the remote store assigns next
  ops,          \* mutation requests issued so far
  reqs,         \* requests in flight, in the order they were sent
  list,         \* reviews / experiences / skills / messages / posts / educations
  isLoading, isSaving, isEditing,
  editingId,    \* editingId, editingPost._id, editingEducation.id; 0 is null
  form,         \* formData (skillName in the modal variant of Skills)
  selected,     \* selectedMessage: <<>> is null, <<m>> the selected copy
  modalOpen,    \* deleteModalIsOpen / deleteModalOpen
  toDelete,     \* messageToDelete / skillToDelete._id; 0 is null
  showEditor,   \* Blog: showEditor
  filter,       \* Messages: filter
  confirmed,    \* ids whose deletion the user has confirmed (OK / modal Delete)
  last,         \* what the step that led here did (see Completed)
  searchTerm,   \* Messages: searchTerm, a sequence of characters
  isLoaded, isSignedIn,   \* useAuth() of the identity provider
  activeSection,          \* App: activeSection
  isOpen,       \* Sidebar: isOpen
  screen,       \* what App returns: "loading", "signin" or "shell"
  content,      \* HeroEditor: content
  resumeLink,   \* HeroEditor: resumeLink, a sequence of characters
  validationErrors,   \* HeroEditor, Blog: the fields that show an error
  timers        \* Messages: the intervals that are set, each with its closure

vars == <<panel, server, nextId, ops, reqs, list, isLoading, isSaving,
          isEditing, editingId, form, selected, modalOpen, toDelete,
          showEditor, filter, confirmed, last, searchTerm, isLoaded,
          isSignedIn, activeSection, isOpen, screen, content, resumeLink,
          validationErrors, timers>>

\* the state of App and Sidebar, which no handler of a panel touches
appVars == <<isLoaded, isSignedIn, activeSection, isOpen, screen>>

\* ---- sequences ----------------------------------------------------------
RemoveAt(s, i) == SubSeq(s, 1, i - 1) \o SubSeq(s, i + 1, Len(s))

Ids(l) == {l[i].id : i \in DOMAIN l}

\* prev.map(x => x._id === id ? r : x)
MapReplace(l, id, r) == [i \in DOMAIN l |-> IF l[i].id = id THEN r ELSE l[i]]

\* prev.filter(x => x._id !== id)
FilterOut(l, id) == SelectSeq(l, LAMBDA x : x.id # id)

Find(l, id) == l[CHOOSE i \in DOMAIN l : l[i].id = id]

\* ---- what the latest step did ---------------------------------------------
\* last describes the step that led to the current state.  op: the remote
\* call whose handler finished in it ("none" if none did; "invalid" and
\* "declined" are a submit stopped by validation and a delete the user did
\* not confirm); ok: the call succeeded; errs: the error notifications
\* (toast.error) the handler raised for it; id: the record it addressed.
Completed(op, ok, errs, id) == [op |-> op, ok |-> ok, errs |-> errs, id |-> id]

Quiet == Completed("none", TRUE, 0, 0)

\* ---- the remote store ---------------------------------------------------
\* A stored record: the submitted fields plus what the store sets itself,
\* the identifier and a revision stamp (standing for createdAt, __v, ...).
InitialRecord(p, i) ==
  LET nm == Stored IN
  CASE p = "reviews"  -> [id |-> i, name |-> nm, text |-> "t", rating |-> 5,
                          rev |-> 0, isActive |-> TRUE]
    [] p = "skills"   -> [id |-> i, name |-> nm, rev |-> 0, order |-> i - 1]
    [] p = "messages" -> [id |-> i, rev |-> 0, isRead |-> FALSE,
                          isStarred |-> FALSE, isArchived |-> FALSE]
    [] p = "blog"     -> [id |-> i, name |-> nm, rev |-> 0, status |-> "draft"]
    [] OTHER          -> [id |-> i, name |-> nm, rev |-> 0]

InitialCollection(p) == [i \in 1..NumInitial |-> InitialRecord(p, i)]

\* The order values the store may hold when the panel mounts: the positions
\* themselves (stride 1), or values with gaps, as left behind by records
\* deleted earlier (stride 2).
OrderStrides == {1, 2}

InitialSkills(p, stride) ==
  [i \in 1..NumInitial |->
     [InitialRecord(p, i) EXCEPT !.order = @ * stride]]

StoreCreate(p, id, body) ==
  CASE p = "reviews" -> [id |-> id, name |-> body.name, text |-> body.text,
                         rating |-> body.rating, rev |-> 0, isActive |-> TRUE]
    [] p = "skills"  -> [id |-> id, name |-> body.name, rev |-> 0,
                         order |-> id - 1]
    [] p = "blog"    -> [id |-> id, name |-> body.name, rev |-> 0,
                         status |-> "draft"]
    [] OTHER         -> [id |-> id, name |-> body.name, rev |-> 0]

StoreUpdate(p, old, body) ==
  CASE p = "reviews" -> [old EXCEPT !.name = body.name, !.text = body.text,
                           !.rating = body.rating, !.rev = @ + 1]
    [] p = "blog"    -> [old EXCEPT !.name = body.name, !.status = body.status,
                           !.rev = @ + 1]
    [] OTHER         -> [old EXCEPT !.name = body.name, !.rev = @ + 1]

\* PATCH /api/messages/:id with a partial record {field: value}
StorePatch(old, body) ==
  CASE body.field = "isRead"    -> [old EXCEPT !.isRead = body.value, !.rev = @ + 1]
    [] body.field = "isStarred" -> [old EXCEPT !.isStarred = body.value, !.rev = @ + 1]
    [] body.field = "isArchived" -> [old EXCEPT !.isArchived = body.value, !.rev = @ + 1]

\* PATCH /api/reviews/:id/toggle-active: the store flips its own value
StoreToggle(old) == [old EXCEPT !.isActive = ~@, !.rev = @ + 1]

\* the content document of the store, with or without a resume link
StoredContent(link) ==
  [id |-> 1, rev |-> 0, heroParagraph |-> <<"t">>, whoIAm |-> <<"t">>,
   myExpertise |-> <<"t">>, myMission |-> <<"t">>, myJourney |-> <<"t">>,
   resume |-> link]

\* PUT /api/content/resume {url}
StoreResume(old, body) == [old EXCEPT !.resume = body.url, !.rev = @ + 1]

\* POST /api/skills/reorder {orderedIds}: order becomes the position
StoreReorder(coll, orderedIds) ==
  LET known == SelectSeq(orderedIds, LAMBDA id : id \in Ids(coll)) IN
  [i \in DOMAIN known |-> [Find(coll, known[i]) EXCEPT !.order = i - 1]]

NoBody == [none |-> TRUE]

\* GET of the collection; /api/messages?filter=... narrows it
StoreQuery(coll, body) ==
  IF "filter" \in DOMAIN body /\ body.filter = "starred"
  THEN SelectSeq(coll, LAMBDA m : m.isStarred)
  ELSE IF "filter" \in DOMAIN body /\ body.filter = "archived"
  THEN SelectSeq(coll, LAMBDA m : m.isArchived)
  ELSE coll
NoCap == [none |-> TRUE]

Request(kind, path, id, body, cap) ==
  [kind |-> kind, path |-> path, id |-> id, body |-> body, cap |-> cap,
   st |-> "sent", data |-> <<>>]

\* The store serves request i: it answers 2xx and applies the change, or it
\* fails and changes nothing.
ServerOk(i) ==
  LET r == reqs[i] IN
  /\ r.st = "sent"
  /\ r.path = "api"     \* the store has no route outside /api
  /\ CASE r.kind \in {"load", "refresh"} ->
            /\ reqs' = [reqs EXCEPT ![i].st = "ok",
                                    ![i].data = StoreQuery(server, r.body)]
            /\ UNCHANGED <<server, nextId>>
       [] r.kind = "create" ->
            LET rec == StoreCreate(panel, nextId, r.body) IN
            /\ server' = Append(server, rec)
            /\ nextId' = nextId + 1
            /\ reqs' = [reqs EXCEPT ![i].st = "ok", ![i].data = <<rec>>]
       [] r.kind \in {"update", "status", "patch", "toggle"} ->
            /\ r.id \in Ids(server)
            /\ LET old == Find(server, r.id)
                   rec == CASE r.kind \in {"update", "status"} ->
                                 StoreUpdate(panel, old, r.body)
                            [] r.kind = "patch"  -> StorePatch(old, r.body)
                            [] r.kind = "toggle" -> StoreToggle(old)
               IN /\ server' = MapReplace(server, r.id, rec)
                  /\ reqs' = [reqs EXCEPT ![i].st = "ok", ![i].data = <<rec>>]
            /\ UNCHANGED nextId
       [] r.kind = "delete" ->
            /\ r.id \in Ids(server)
            /\ server' = FilterOut(server, r.id)
            /\ reqs' = [reqs EXCEPT ![i].st = "ok"]
            /\ UNCHANGED nextId
       [] r.kind = "resume" ->
            LET rec == StoreResume(server[1], r.body) IN
            /\ server' = <<rec>>
            /\ reqs' = [reqs EXCEPT ![i].st = "ok", ![i].data = <<rec>>]
            /\ UNCHANGED nextId
       [] r.kind = "reorder" ->
            /\ server' = StoreReorder(server, r.body.orderedIds)
            /\ reqs' = [reqs EXCEPT ![i].st = "ok"]
            /\ UNCHANGED nextId
  /\ UNCHANGED appVars
  /\ UNCHANGED <<content, resumeLink, validationErrors, timers>>
  /\ UNCHANGED <<searchTerm, panel, filter, confirmed, ops, list, isLoading, isSaving, isEditing, editingId,
                 form, selected, modalOpen, toDelete, showEditor>>
  /\ last' = Quiet

ServerFail(i) ==
  /\ reqs[i].st = "sent"
  /\ \E st \in {"http", "net"} : reqs' = [reqs EXCEPT ![i].st = st]
  /\ UNCHANGED appVars
  /\ UNCHANGED <<content, resumeLink, validationErrors, timers>>
  /\ UNCHANGED <<searchTerm, panel, filter, confirmed, server, nextId, ops, list, isLoading, isSaving,
                 isEditing, editingId, form, selected, modalOpen, toDelete,
                 showEditor>>
  /\ last' = Quiet

EmptyForm(p) ==
  CASE p = "reviews" -> [name |-> "", text |-> "", rating |-> 5]
    [] p = "blog"    -> [name |-> "", status |-> "draft"]
    [] OTHER         -> [name |-> ""]

\* useState of HeroEditor's content: nothing entered, no resume
EmptyContent ==
  [heroParagraph |-> <<>>, whoIAm |-> <<>>, myExpertise |-> <<>>,
   myMission |-> <<>>, myJourney |-> <<>>, resume |-> <<>>]


\* the interval the effect of MessagesSection sets when it runs with the
\* given filter and search term: fetchMessages of that render
Interval(f, term) == [filter |-> f, search |-> term]

\* the query string of fetchMessages: ?filter=...&search=...
MessagesQuery(f, term) == [filter |-> f, search |-> term]

\* the intervals set right after a panel has mounted
MountTimers(p) == IF p = "messages" THEN <<Interval("all", <<>>)>> ELSE <<>>

\* the section of the sidebar under which a panel is mounted
SectionOf(p) == IF p = "skillsModal" THEN "skills" ELSE p

\* The state right after the panel has mounted: its effect has started the
\* first load (the education panel keeps its records locally and loads nothing).
Init ==
  /\ panel \in Panels
  /\ server \in CASE panel = "education" -> {<<>>}
                  [] panel \in HeroPanels ->
                       {<<StoredContent(link)>> : link \in {<<>>, <<"h", ":", "x">>}}
                  [] panel = "skills" ->
                       {InitialSkills(panel, g) : g \in OrderStrides}
                  [] OTHER -> {InitialCollection(panel)}
  /\ nextId = NumInitial + 1
  /\ ops = 0
  /\ reqs = IF panel = "education" THEN <<>>
            ELSE <<Request("load", "api", 0,
                           IF panel = "messages" THEN MessagesQuery("all", <<>>)
                           ELSE NoBody, NoCap)>>
  /\ list = IF panel = "education" THEN <<[id |-> 1, name |-> Stored]>> ELSE <<>>
  /\ isLoading = (panel # "education")
  /\ isSaving = FALSE
  /\ isEditing = FALSE
  /\ editingId = 0
  /\ form = EmptyForm(panel)
  /\ selected = <<>>
  /\ modalOpen = FALSE
  /\ toDelete = 0
  /\ showEditor = FALSE
  /\ filter = "all"
  /\ confirmed = {}
  /\ last = Quiet
  /\ searchTerm = <<>>
  /\ content = EmptyContent
  /\ resumeLink = <<>>
  /\ validationErrors = {}
  /\ timers = MountTimers(panel)
  /\ isLoaded = TRUE /\ isSignedIn = TRUE
  /\ activeSection = SectionOf(panel)
  /\ isOpen = FALSE
  /\ screen = "shell"

\* ---- form panels: Reviews and Experience --------------------------------
\* ReviewSection and ExperienceSection share one shape (as do the Education
\* and Projects panels that talk to the API): a form beside a list, every
\* call through apiRequest.  Where the two differ, the difference is in the
\* operators below.
FormPanels == {"reviews", "experience"}

\* apiRequest: toast.error in its catch, then rethrow
Review_apiRequest(st) == IF st = "ok" THEN 0 ELSE 1

Experience_apiRequest(st) == IF st = "ok" THEN 0 ELSE 1

ApiRequestErrs(p, st) ==
  IF p = "reviews" THEN Review_apiRequest(st) ELSE Experience_apiRequest(st)

\* error notifications the catch block of a handler adds to apiRequest's own
Review_catch == 0

Experience_catch == 1

CatchErrs(p) == IF p = "reviews" THEN Review_catch ELSE Experience_catch

\* fetchReviews / fetchExperiences after the await
Review_fetchReviewsFailed(l) == l

Experience_fetchExperiencesFailed(l) == <<>>

fetchDone(i) ==
  LET r == reqs[i] IN
  /\ panel \in FormPanels
  /\ r.kind = "load" /\ r.st # "sent"
  /\ reqs' = RemoveAt(reqs, i)
  /\ IF r.st = "ok"
     THEN /\ list' = r.data
          /\ last' = Completed("load", TRUE, 0, 0)
     ELSE /\ list' = IF panel = "reviews" THEN Review_fetchReviewsFailed(list)
                     ELSE Experience_fetchExperiencesFailed(list)
          /\ last' = Completed("load", FALSE,
                        ApiRequestErrs(panel, r.st) + CatchErrs(panel), 0)
  /\ isLoading' = FALSE
  /\ UNCHANGED appVars
  /\ UNCHANGED <<content, resumeLink, validationErrors, timers>>
  /\ UNCHANGED <<searchTerm, panel, filter, confirmed, server, nextId, ops, isSaving, isEditing, editingId,
                 form, selected, modalOpen, toDelete, showEditor>>

\* handleInputChange and the star buttons: the form fields are never disabled
handleInputChange(field, value) ==
  /\ panel \in FormPanels
  /\ field \in DOMAIN form
  /\ form[field] # value
  /\ form' = [form EXCEPT ![field] = value]
  /\ UNCHANGED appVars
  /\ UNCHANGED <<content, resumeLink, validationErrors, timers>>
  /\ UNCHANGED <<searchTerm, panel, filter, confirmed, server, nextId, ops, reqs, list, isLoading, isSaving,
                 isEditing, editingId, selected, modalOpen, toDelete,
                 showEditor>>
  /\ last' = Quiet

FieldValues(field) ==
  CASE field = "name"   -> Names \cup {""}
    [] field = "text"   -> Texts \cup {""}
    [] field = "rating" -> Ratings
    [] OTHER            -> {}

\* the guards at the head of handleSubmit
Review_valid_offByOne(f) ==
  /\ ~(f.name = "" \/ f.text = "")
  /\ ~(f.rating < 1 \/ f.rating > 6)

Review_valid(f) ==
  /\ ~(f.name = "" \/ f.text = "")
  /\ ~(f.rating < 1 \/ f.rating > 5)

Experience_valid(f) == ~(f.name = "")

Valid(p, f) == IF p = "reviews" THEN Review_valid(f) ELSE Experience_valid(f)

\* resetForm without setEditingId(null)
resetFormState_keepsId ==
  /\ form' = EmptyForm(panel)
  /\ isEditing' = FALSE
  /\ UNCHANGED editingId

resetFormState ==
  /\ form' = EmptyForm(panel)
  /\ isEditing' = FALSE
  /\ editingId' = 0

\* handleSubmit up to the await
handleSubmit ==
  /\ panel \in FormPanels
  /\ ~isSaving
  /\ IF ~Valid(panel, form)
     THEN /\ last' = Completed("invalid", FALSE, 1, 0)
          /\ UNCHANGED <<reqs, ops, isSaving>>
     ELSE /\ ops < MaxOps
          /\ isSaving' = TRUE
          /\ ops' = ops + 1
          /\ reqs' = Append(reqs,
                IF isEditing /\ editingId # 0
                THEN Request("update", "api", editingId, form,
                             [editingId |-> editingId])
                ELSE Request("create", "api", 0, form, [editingId |-> 0]))
          /\ last' = Quiet
  /\ UNCHANGED appVars
  /\ UNCHANGED <<content, resumeLink, validationErrors, timers>>
  /\ UNCHANGED <<searchTerm, panel, filter, confirmed, server, nextId, list, isLoading, isEditing, editingId,
                 form, selected, modalOpen, toDelete, showEditor>>

\* setReviews(prev => ...) in the two branches of handleSubmit
Review_applyUpdate(l, id, rec) == MapReplace(l, id, rec)

Review_applyCreate_prepend(l, rec) == <<rec>> \o l

Review_applyCreate(l, rec) == Append(l, rec)

handleSubmitFailed_resets == resetFormState /\ UNCHANGED list

\* the catch block of handleSubmit: it logs (Experience also notifies) and
\* touches no state
handleSubmitFailed == UNCHANGED <<list, form, isEditing, editingId>>

\* handleSubmit after the await
handleSubmitDone(i) ==
  LET r == reqs[i] IN
  /\ panel \in FormPanels
  /\ r.kind \in {"create", "update"} /\ r.st # "sent"
  /\ reqs' = RemoveAt(reqs, i)
  /\ IF r.st = "ok"
     THEN /\ list' = IF r.kind = "update"
                     THEN Review_applyUpdate(list, r.cap.editingId, r.data[1])
                     ELSE Review_applyCreate(list, r.data[1])
          /\ resetFormState
          /\ last' = Completed(r.kind, TRUE, 0, r.data[1].id)
     ELSE /\ last' = Completed(r.kind, FALSE,
                        ApiRequestErrs(panel, r.st) + CatchErrs(panel), 0)
          /\ handleSubmitFailed
  /\ isSaving' = FALSE
  /\ UNCHANGED appVars
  /\ UNCHANGED <<content, resumeLink, validationErrors, timers>>
  /\ UNCHANGED <<searchTerm, panel, filter, confirmed, server, nextId, ops, isLoading, selected, modalOpen,
                 toDelete, showEditor>>

FormOf(p, rec) ==
  IF p = "reviews"
  THEN [name |-> rec.name, text |-> rec.text, rating |-> rec.rating]
  ELSE [name |-> rec.name]

\* the Edit button of a listed record
handleEdit(k) ==
  /\ panel \in FormPanels
  /\ ~isSaving /\ ~isLoading
  /\ k \in DOMAIN list
  /\ form' = FormOf(panel, list[k])
  /\ isEditing' = TRUE
  /\ editingId' = list[k].id
  /\ UNCHANGED appVars
  /\ UNCHANGED <<content, resumeLink, validationErrors, timers>>
  /\ UNCHANGED <<searchTerm, panel, filter, confirmed, server, nextId, ops, reqs, list, isLoading, isSaving,
                 selected, modalOpen, toDelete, showEditor>>
  /\ last' = Quiet

\* the Cancel button, shown while editing
resetForm ==
  /\ panel \in FormPanels
  /\ isEditing /\ ~isSaving
  /\ resetFormState
  /\ UNCHANGED appVars
  /\ UNCHANGED <<content, resumeLink, validationErrors, timers>>
  /\ UNCHANGED <<searchTerm, panel, filter, confirmed, server, nextId, ops, reqs, list, isLoading, isSaving,
                 selected, modalOpen, toDelete, showEditor>>
  /\ last' = Quiet

\* the endpoint handleDelete addresses
Review_deletePath == "api"

Experience_deletePath == "noapi"

\* handleDelete up to the await: confirm() answers before anything is sent
handleDelete(k, answer) ==
  /\ panel \in FormPanels
  /\ ~isSaving /\ ~isLoading
  /\ k \in DOMAIN list
  /\ IF ~answer
     THEN /\ last' = Completed("declined", TRUE, 0, 0)
          /\ UNCHANGED <<reqs, ops, isSaving, confirmed>>
     ELSE /\ ops < MaxOps
          /\ confirmed' = confirmed \cup {list[k].id}
          /\ isSaving' = TRUE
          /\ ops' = ops + 1
          /\ reqs' = Append(reqs,
                Request("delete",
                        IF panel = "reviews" THEN Review_deletePath
                        ELSE Experience_deletePath,
                        list[k].id, NoBody, NoCap))
          /\ last' = Quiet
  /\ UNCHANGED appVars
  /\ UNCHANGED <<content, resumeLink, validationErrors, timers>>
  /\ UNCHANGED <<searchTerm, panel, filter, server, nextId, list, isLoading, isEditing,
                 editingId, form, selected, modalOpen, toDelete, showEditor>>

\* handleDelete after the await
handleDeleteDone(i) ==
  LET r == reqs[i] IN
  /\ panel \in FormPanels
  /\ r.kind = "delete" /\ r.st # "sent"
  /\ reqs' = RemoveAt(reqs, i)
  /\ IF r.st = "ok"
     THEN /\ list' = FilterOut(list, r.id)
          /\ last' = Completed("delete", TRUE, 0, r.id)
     ELSE /\ last' = Completed("delete", FALSE,
                        ApiRequestErrs(panel, r.st) + CatchErrs(panel),
                        r.id)
          /\ UNCHANGED list
  /\ isSaving' = FALSE
  /\ UNCHANGED appVars
  /\ UNCHANGED <<content, resumeLink, validationErrors, timers>>
  /\ UNCHANGED <<searchTerm, panel, filter, confirmed, server, nextId, ops, isLoading, isEditing, editingId,
                 form, selected, modalOpen, toDelete, showEditor>>

\* Reviews: toggleActive up to the await (toggleFeatured is the same code)
toggleActive(k) ==
  /\ panel = "reviews"
  /\ ~isSaving /\ ~isLoading
  /\ k \in DOMAIN list
  /\ ops < MaxOps
  /\ isSaving' = TRUE
  /\ ops' = ops + 1
  /\ reqs' = Append(reqs, Request("toggle", "api", list[k].id, NoBody,
                                  [currentStatus |-> list[k].isActive]))
  /\ UNCHANGED appVars
  /\ UNCHANGED <<content, resumeLink, validationErrors, timers>>
  /\ UNCHANGED <<searchTerm, panel, filter, confirmed, server, nextId, list, isLoading, isEditing, editingId,
                 form, selected, modalOpen, toDelete, showEditor>>
  /\ last' = Quiet

\* toggleActive without its finally block
toggleActiveDone_noFinally(i) ==
  LET r == reqs[i] IN
  /\ panel = "reviews"
  /\ r.kind = "toggle" /\ r.st # "sent"
  /\ reqs' = RemoveAt(reqs, i)
  /\ IF r.st = "ok"
     THEN /\ list' = [j \in DOMAIN list |->
                        IF list[j].id = r.id
                        THEN [list[j] EXCEPT !.isActive = r.data[1].isActive]
                        ELSE list[j]]
          /\ last' = Completed("toggle", TRUE, 0, r.id)
     ELSE /\ last' = Completed("toggle", FALSE, Review_apiRequest(r.st), 0)
          /\ UNCHANGED list
  /\ UNCHANGED isSaving
  /\ UNCHANGED appVars
  /\ UNCHANGED <<content, resumeLink, validationErrors, timers>>
  /\ UNCHANGED <<searchTerm, panel, filter, confirmed, server, nextId, ops, isLoading, isEditing, editingId,
                 form, selected, modalOpen, toDelete, showEditor>>

\* toggleActive after the await: the flag is the one the store reports
toggleActiveDone(i) ==
  LET r == reqs[i] IN
  /\ panel = "reviews"
  /\ r.kind = "toggle" /\ r.st # "sent"
  /\ reqs' = RemoveAt(reqs, i)
  /\ IF r.st = "ok"
     THEN /\ list' = [j \in DOMAIN list |->
                        IF list[j].id = r.id
                        THEN [list[j] EXCEPT !.isActive = r.data[1].isActive]
                        ELSE list[j]]
          /\ last' = Completed("toggle", TRUE, 0, r.id)
     ELSE /\ last' = Completed("toggle", FALSE, Review_apiRequest(r.st), 0)
          /\ UNCHANGED list
  /\ isSaving' = FALSE
  /\ UNCHANGED appVars
  /\ UNCHANGED <<content, resumeLink, validationErrors, timers>>
  /\ UNCHANGED <<searchTerm, panel, filter, confirmed, server, nextId, ops, isLoading, isEditing, editingId,
                 form, selected, modalOpen, toDelete, showEditor>>

\* ---- Skills: SkillsSection and its variant with a delete modal ----------
SkillPanels == {"skills", "skillsModal"}

\* What fetchSkills stores when the response is not 2xx: it never looks at
\* response.ok, so the parsed error body becomes the list.  A one-element
\* list holding the body stands for it; rendering it throws (the body has no
\* map), so nothing of the panel can be clicked any more.
ErrorBody == <<[id |-> 0, message |-> "error"]>>

Rendered == list # ErrorBody

\* fetchSkills after the await
fetchSkillsPayload(l, st, data) ==
  CASE st = "ok"   -> data
    [] st = "http" -> ErrorBody
    [] OTHER       -> l

fetchSkillsErrs(st) == IF st = "net" THEN 1 ELSE 0

fetchSkillsDone(i) ==
  LET r == reqs[i] IN
  /\ panel \in SkillPanels
  /\ Rendered
  /\ r.kind = "load" /\ r.st # "sent"
  /\ reqs' = RemoveAt(reqs, i)
  /\ list' = fetchSkillsPayload(list, r.st, r.data)
  /\ last' = Completed("load", r.st = "ok", fetchSkillsErrs(r.st), 0)
  /\ isLoading' = FALSE
  /\ UNCHANGED appVars
  /\ UNCHANGED <<content, resumeLink, validationErrors, timers>>
  /\ UNCHANGED <<searchTerm, panel, filter, confirmed, server, nextId, ops, isSaving, isEditing, editingId,
                 form, selected, modalOpen, toDelete, showEditor>>

Skills_handleInputChange(value) ==
  /\ panel \in SkillPanels
  /\ Rendered
  /\ form.name # value
  /\ form' = [form EXCEPT !.name = value]
  /\ UNCHANGED appVars
  /\ UNCHANGED <<content, resumeLink, validationErrors, timers>>
  /\ UNCHANGED <<searchTerm, panel, filter, confirmed, server, nextId, ops, reqs, list, isLoading, isSaving,
                 isEditing, editingId, selected, modalOpen, toDelete,
                 showEditor>>
  /\ last' = Quiet

Skills_handleEdit(k) ==
  /\ panel \in SkillPanels
  /\ Rendered /\ ~isSaving /\ ~isLoading /\ ~modalOpen
  /\ k \in DOMAIN list
  /\ form' = [name |-> list[k].name]
  /\ isEditing' = TRUE
  /\ editingId' = list[k].id
  /\ UNCHANGED appVars
  /\ UNCHANGED <<content, resumeLink, validationErrors, timers>>
  /\ UNCHANGED <<searchTerm, panel, filter, confirmed, server, nextId, ops, reqs, list, isLoading, isSaving,
                 selected, modalOpen, toDelete, showEditor>>
  /\ last' = Quiet

Skills_resetForm ==
  /\ panel \in SkillPanels
  /\ Rendered /\ isEditing /\ ~isSaving /\ ~modalOpen
  /\ resetFormState
  /\ UNCHANGED appVars
  /\ UNCHANGED <<content, resumeLink, validationErrors, timers>>
  /\ UNCHANGED <<searchTerm, panel, filter, confirmed, server, nextId, ops, reqs, list, isLoading, isSaving,
                 selected, modalOpen, toDelete, showEditor>>
  /\ last' = Quiet

\* handleSubmit up to the await
Skills_handleSubmit ==
  /\ panel \in SkillPanels
  /\ Rendered /\ ~isSaving /\ ~modalOpen
  /\ IF form.name = ""
     THEN /\ last' = Completed("invalid", FALSE, 1, 0)
          /\ UNCHANGED <<reqs, ops, isSaving>>
     ELSE /\ ops < MaxOps
          /\ isSaving' = TRUE
          /\ ops' = ops + 1
          /\ reqs' = Append(reqs,
                IF isEditing /\ editingId # 0
                THEN Request("update", "api", editingId, form,
                             [editingId |-> editingId, name |-> form.name])
                ELSE Request("create", "api", 0, form,
                             [editingId |-> 0, name |-> form.name]))
          /\ last' = Quiet
  /\ UNCHANGED appVars
  /\ UNCHANGED <<content, resumeLink, validationErrors, timers>>
  /\ UNCHANGED <<searchTerm, panel, filter, confirmed, server, nextId, list, isLoading, isEditing, editingId,
                 form, selected, modalOpen, toDelete, showEditor>>

\* SkillsSection.handleSubmit: skill._id === editingId ? data : skill
Skills_applyUpdate(l, cap, data) == MapReplace(l, cap.editingId, data[1])

\* the modal variant never reads the body of a PUT response:
\* skill._id === editingId ? { ...skill, name: skillName } : skill
SkillsModal_applyUpdate(l, cap, data) ==
  [j \in DOMAIN l |-> IF l[j].id = cap.editingId
                      THEN [l[j] EXCEPT !.name = cap.name] ELSE l[j]]

\* handleSubmit after the await.  SkillsSection ends its try block with
\* fetchSkills(), which is not awaited: the reload is started and isSaving
\* is cleared in the same turn.
Skills_handleSubmitDone(i) ==
  LET r == reqs[i] IN
  /\ panel \in SkillPanels
  /\ Rendered
  /\ r.kind \in {"create", "update"} /\ r.st # "sent"
  /\ IF r.st = "ok"
     THEN /\ list' = IF r.kind = "create" THEN Append(list, r.data[1])
                     ELSE IF panel = "skills"
                          THEN Skills_applyUpdate(list, r.cap, r.data)
                          ELSE SkillsModal_applyUpdate(list, r.cap, r.data)
          /\ resetFormState
          /\ last' = Completed(r.kind, TRUE, 0, r.data[1].id)
          /\ IF panel = "skills"
             THEN /\ isLoading' = TRUE
                  /\ reqs' = Append(RemoveAt(reqs, i),
                                    Request("load", "api", 0, NoBody, NoCap))
             ELSE /\ reqs' = RemoveAt(reqs, i)
                  /\ UNCHANGED isLoading
     ELSE /\ last' = Completed(r.kind, FALSE, 1, 0)
          /\ reqs' = RemoveAt(reqs, i)
          /\ UNCHANGED <<list, form, isEditing, editingId, isLoading>>
  /\ isSaving' = FALSE
  /\ UNCHANGED appVars
  /\ UNCHANGED <<content, resumeLink, validationErrors, timers>>
  /\ UNCHANGED <<searchTerm, panel, filter, confirmed, server, nextId, ops, selected, modalOpen, toDelete,
                 showEditor>>

\* SkillsSection.handleDelete up to the await
Skills_handleDelete(k, answer) ==
  /\ panel = "skills"
  /\ Rendered /\ ~isSaving /\ ~isLoading
  /\ k \in DOMAIN list
  /\ IF ~answer
     THEN /\ last' = Completed("declined", TRUE, 0, 0)
          /\ UNCHANGED <<reqs, ops, isSaving, confirmed>>
     ELSE /\ ops < MaxOps
          /\ confirmed' = confirmed \cup {list[k].id}
          /\ isSaving' = TRUE
          /\ ops' = ops + 1
          /\ reqs' = Append(reqs, Request("delete", "api", list[k].id, NoBody,
                                          NoCap))
          /\ last' = Quiet
  /\ UNCHANGED appVars
  /\ UNCHANGED <<content, resumeLink, validationErrors, timers>>
  /\ UNCHANGED <<searchTerm, panel, filter, server, nextId, list, isLoading, isEditing,
                 editingId, form, selected, modalOpen, toDelete, showEditor>>

\* the modal variant: the list's Delete button, the modal's Cancel / X
openDeleteModal(k) ==
  /\ panel = "skillsModal"
  /\ Rendered /\ ~isSaving /\ ~isLoading /\ ~modalOpen
  /\ k \in DOMAIN list
  /\ toDelete' = list[k].id
  /\ modalOpen' = TRUE
  /\ UNCHANGED appVars
  /\ UNCHANGED <<content, resumeLink, validationErrors, timers>>
  /\ UNCHANGED <<searchTerm, panel, filter, confirmed, server, nextId, ops, reqs, list, isLoading, isSaving,
                 isEditing, editingId, form, selected, showEditor>>
  /\ last' = Quiet

closeDeleteModal ==
  /\ panel = "skillsModal"
  /\ Rendered /\ modalOpen
  /\ modalOpen' = FALSE
  /\ toDelete' = 0
  /\ last' = Completed("declined", TRUE, 0, 0)
  /\ UNCHANGED appVars
  /\ UNCHANGED <<content, resumeLink, validationErrors, timers>>
  /\ UNCHANGED <<searchTerm, panel, filter, confirmed, server, nextId, ops, reqs, list, isLoading, isSaving,
                 isEditing, editingId, form, selected, showEditor>>

\* the modal's Delete button
SkillsModal_handleDelete ==
  /\ panel = "skillsModal"
  /\ Rendered /\ modalOpen /\ ~isSaving
  /\ toDelete # 0
  /\ ops < MaxOps
  /\ isSaving' = TRUE
  /\ ops' = ops + 1
  /\ reqs' = Append(reqs, Request("delete", "api", toDelete, NoBody, NoCap))
  /\ confirmed' = confirmed \cup {toDelete}
  /\ UNCHANGED appVars
  /\ UNCHANGED <<content, resumeLink, validationErrors, timers>>
  /\ UNCHANGED <<searchTerm, panel, filter, server, nextId, list, isLoading, isEditing, editingId,
                 form, selected, modalOpen, toDelete, showEditor>>
  /\ last' = Quiet

\* handleDelete after the await, in both variants
Skills_handleDeleteDone(i) ==
  LET r == reqs[i] IN
  /\ panel \in SkillPanels
  /\ Rendered
  /\ r.kind = "delete" /\ r.st # "sent"
  /\ reqs' = RemoveAt(reqs, i)
  /\ IF r.st = "ok"
     THEN /\ list' = FilterOut(list, r.id)
          /\ last' = Completed("delete", TRUE, 0, r.id)
          /\ IF panel = "skillsModal"
             THEN modalOpen' = FALSE /\ toDelete' = 0
             ELSE UNCHANGED <<modalOpen, toDelete>>
     ELSE /\ last' = Completed("delete", FALSE, 1, r.id)
          /\ UNCHANGED <<list, modalOpen, toDelete>>
  /\ isSaving' = FALSE
  /\ UNCHANGED appVars
  /\ UNCHANGED <<content, resumeLink, validationErrors, timers>>
  /\ UNCHANGED <<searchTerm, panel, filter, confirmed, server, nextId, ops, isLoading, isEditing, editingId,
                 form, selected, showEditor>>

\* newSkills.sort((a, b) => a.order - b.order): a stable sort
RECURSIVE InsertByOrder(_, _)
InsertByOrder(sorted, x) ==
  IF sorted = <<>> THEN <<x>>
  ELSE IF sorted[Len(sorted)].order <= x.order THEN Append(sorted, x)
  ELSE Append(InsertByOrder(SubSeq(sorted, 1, Len(sorted) - 1), x),
              sorted[Len(sorted)])

RECURSIVE SortByOrder(_)
SortByOrder(l) ==
  IF l = <<>> THEN <<>>
  ELSE InsertByOrder(SortByOrder(SubSeq(l, 1, Len(l) - 1)), l[Len(l)])

\* the swap of the two order values, then the sort
SwapOrder(l, a, b) ==
  [j \in DOMAIN l |-> IF j = a THEN [l[a] EXCEPT !.order = l[b].order]
                      ELSE IF j = b THEN [l[b] EXCEPT !.order = l[a].order]
                      ELSE l[j]]

\* moveSkill up to the await; the arrows are disabled at the ends of the list
moveSkill(k, direction) ==
  LET newIndex == IF direction = "up" THEN k - 1 ELSE k + 1 IN
  /\ panel = "skills"
  /\ Rendered /\ ~isSaving /\ ~isLoading
  /\ k \in DOMAIN list /\ newIndex \in DOMAIN list
  /\ ops < MaxOps
  /\ LET newSkills == SortByOrder(SwapOrder(list, k, newIndex)) IN
     /\ list' = newSkills
     /\ reqs' = Append(reqs, Request("reorder", "api", 0,
                  [orderedIds |-> [j \in DOMAIN newSkills |-> newSkills[j].id]],
                  NoCap))
  /\ isSaving' = TRUE
  /\ ops' = ops + 1
  /\ UNCHANGED appVars
  /\ UNCHANGED <<content, resumeLink, validationErrors, timers>>
  /\ UNCHANGED <<searchTerm, panel, filter, confirmed, server, nextId, isLoading, isEditing, editingId, form,
                 selected, modalOpen, toDelete, showEditor>>
  /\ last' = Quiet

\* moveSkill after the await: only a rejected fetch reaches the catch block
moveSkillDone(i) ==
  LET r == reqs[i] IN
  /\ panel = "skills"
  /\ Rendered
  /\ r.kind = "reorder" /\ r.st # "sent"
  /\ IF r.st = "net"
     THEN /\ last' = Completed("reorder", FALSE, 1, 0)
          /\ isLoading' = TRUE
          /\ reqs' = Append(RemoveAt(reqs, i),
                            Request("load", "api", 0, NoBody, NoCap))
     ELSE /\ last' = Completed("reorder", r.st = "ok", 0, 0)
          /\ reqs' = RemoveAt(reqs, i)
          /\ UNCHANGED isLoading
  /\ isSaving' = FALSE
  /\ UNCHANGED appVars
  /\ UNCHANGED <<content, resumeLink, validationErrors, timers>>
  /\ UNCHANGED <<searchTerm, panel, filter, confirmed, server, nextId, ops, list, isEditing, editingId, form,
                 selected, modalOpen, toDelete, showEditor>>

\* a response that arrives after the render has thrown: React has unmounted
\* the tree and the continuation's state updates are dropped
Skills_unmountedDone(i) ==
  /\ panel \in SkillPanels
  /\ ~Rendered
  /\ reqs[i].st # "sent"
  /\ reqs' = RemoveAt(reqs, i)
  /\ UNCHANGED appVars
  /\ UNCHANGED <<content, resumeLink, validationErrors, timers>>
  /\ UNCHANGED <<searchTerm, panel, filter, confirmed, server, nextId, ops, list, isLoading, isSaving,
                 isEditing, editingId, form, selected, modalOpen, toDelete,
                 showEditor>>
  /\ last' = Quiet

\* ---- Messages ------------------------------------------------------------
Filters == {"all", "starred", "archived"}

filteredMessages_skipsFirst(l, f) ==
  LET kept == SelectSeq(l, LAMBDA m : IF f = "starred" THEN m.isStarred
                                      ELSE IF f = "archived" THEN m.isArchived
                                      ELSE TRUE)
  IN IF f = "all" \/ kept = <<>> THEN kept ELSE Tail(kept)

\* const filteredMessages = messages.filter(...)
filteredMessages(l, f) ==
  SelectSeq(l, LAMBDA m : IF f = "starred" THEN m.isStarred
                          ELSE IF f = "archived" THEN m.isArchived
                          ELSE TRUE)

SelectedId == IF selected = <<>> THEN 0 ELSE selected[1].id

\* While isLoading the component returns the spinner alone; the open delete
\* modal covers the page underneath it.
MessagesShown == panel = "messages" /\ ~isLoading

PageClickable == MessagesShown /\ ~modalOpen

\* fetchMessages up to the await: called by the effect (on mount and on
\* every change of filter) and by the 30 s interval the effect installs
fetchMessages(k) ==
  /\ panel = "messages"
  /\ k \in DOMAIN timers
  /\ Len(reqs) < MaxInFlight
  /\ isLoading' = TRUE
  /\ reqs' = Append(reqs, Request("load", "api", 0,
                                  MessagesQuery(timers[k].filter,
                                                timers[k].search), NoCap))
  /\ UNCHANGED appVars
  /\ UNCHANGED <<content, resumeLink, validationErrors, timers>>
  /\ UNCHANGED <<searchTerm, panel, filter, confirmed, server, nextId, ops, list, isSaving,
                 isEditing, editingId, form, selected, modalOpen, toDelete,
                 showEditor>>
  /\ last' = Quiet

Effect_keepsOld(ts, f, term) == Append(ts, Interval(f, term))

\* the effect runs again: its cleanup clears the interval of the previous
\* run, then a new interval is set
Effect(ts, f, term) == <<Interval(f, term)>>

\* a filter tab: setFilter, and the effect runs fetchMessages again
setFilter(f) ==
  /\ PageClickable
  /\ f # filter
  /\ Len(reqs) < MaxInFlight
  /\ filter' = f
  /\ isLoading' = TRUE
  /\ reqs' = Append(reqs, Request("load", "api", 0,
                                  MessagesQuery(f, searchTerm), NoCap))
  /\ UNCHANGED appVars
  /\ timers' = Effect(timers, f, searchTerm)
  /\ UNCHANGED <<content, resumeLink, validationErrors>>
  /\ UNCHANGED <<searchTerm, panel, confirmed, server, nextId, ops, list, isSaving,
                 isEditing, editingId, form, selected, modalOpen, toDelete,
                 showEditor>>
  /\ last' = Quiet

\* the search box: setSearchTerm, and the effect runs fetchMessages again
setSearchTerm(term) ==
  /\ PageClickable
  /\ term # searchTerm
  /\ Len(reqs) < MaxInFlight
  /\ searchTerm' = term
  /\ isLoading' = TRUE
  /\ reqs' = Append(reqs, Request("load", "api", 0,
                                  MessagesQuery(filter, term), NoCap))
  /\ timers' = Effect(timers, filter, term)
  /\ UNCHANGED appVars
  /\ UNCHANGED <<content, resumeLink, validationErrors>>
  /\ UNCHANGED <<panel, filter, confirmed, server, nextId, ops, list, isSaving,
                 isEditing, editingId, form, selected, modalOpen, toDelete,
                 showEditor>>
  /\ last' = Quiet

Messages_setMessages_dropsStale(l, r) ==
  IF r.body.filter = filter THEN r.data ELSE l

\* setMessages(data): the payload is stored whatever request it answers
Messages_setMessages(l, r) == r.data

\* fetchMessages after the await
fetchMessagesDone(i) ==
  LET r == reqs[i] IN
  /\ panel = "messages"
  /\ r.kind = "load" /\ r.st # "sent"
  /\ reqs' = RemoveAt(reqs, i)
  /\ IF r.st = "ok"
     THEN /\ list' = Messages_setMessages(list, r)
          /\ last' = Completed("load", TRUE, 0, 0)
     ELSE /\ last' = Completed("load", FALSE, 1, 0)
          /\ UNCHANGED list
  /\ isLoading' = FALSE
  /\ UNCHANGED appVars
  /\ UNCHANGED <<content, resumeLink, validationErrors, timers>>
  /\ UNCHANGED <<searchTerm, panel, filter, confirmed, server, nextId, ops, isSaving,
                 isEditing, editingId, form, selected, modalOpen, toDelete,
                 showEditor>>

\* updateMessage up to the await; selectedMessage is read after the await
\* from the closure of the render in which the handler was called
updateMessage(id, field, value, closureSelectedId) ==
  /\ isSaving' = TRUE
  /\ ops' = ops + 1
  /\ reqs' = Append(reqs, Request("patch", "api", id,
                                  [field |-> field, value |-> value],
                                  [selectedId |-> closureSelectedId]))

\* the onClick of a row of the list: select, and mark an unread row read.
\* The row is not a button and nothing disables it while isSaving.
selectMessage(k) ==
  /\ PageClickable
  /\ k \in DOMAIN filteredMessages(list, filter)
  /\ LET message == filteredMessages(list, filter)[k] IN
     /\ selected' = <<message>>
     /\ IF ~message.isRead
        THEN /\ ops < MaxOps /\ Len(reqs) < MaxInFlight
             /\ updateMessage(message.id, "isRead", ~message.isRead, SelectedId)
        ELSE /\ selected # <<message>>
             /\ UNCHANGED <<isSaving, ops, reqs>>
  /\ UNCHANGED appVars
  /\ UNCHANGED <<content, resumeLink, validationErrors, timers>>
  /\ UNCHANGED <<searchTerm, panel, filter, confirmed, server, nextId, list, isLoading,
                 isEditing, editingId, form, modalOpen, toDelete, showEditor>>
  /\ last' = Quiet

\* toggleRead / toggleStar from the buttons of the detail pane
toggleFlag(field) ==
  /\ PageClickable
  /\ selected # <<>> /\ ~isSaving
  /\ SelectedId \in Ids(list)            \* messages.find(m => m._id === id)
  /\ ops < MaxOps /\ Len(reqs) < MaxInFlight
  /\ updateMessage(SelectedId, field, ~Find(list, SelectedId)[field], SelectedId)
  /\ UNCHANGED appVars
  /\ UNCHANGED <<content, resumeLink, validationErrors, timers>>
  /\ UNCHANGED <<searchTerm, panel, filter, confirmed, server, nextId, list, isLoading,
                 isEditing, editingId, form, selected, modalOpen, toDelete,
                 showEditor>>
  /\ last' = Quiet

\* toggleArchive(selectedMessage._id, archive): the detail pane renders the
\* Archive button (archive = true) or the Unarchive button (archive = false)
\* according to selectedMessage.isArchived
toggleArchive ==
  /\ PageClickable
  /\ selected # <<>> /\ ~isSaving
  /\ ops < MaxOps /\ Len(reqs) < MaxInFlight
  /\ updateMessage(SelectedId, "isArchived", ~selected[1].isArchived, SelectedId)
  /\ UNCHANGED appVars
  /\ UNCHANGED <<content, resumeLink, validationErrors, timers>>
  /\ UNCHANGED <<searchTerm, panel, filter, confirmed, server, nextId, list, isLoading,
                 isEditing, editingId, form, selected, modalOpen, toDelete,
                 showEditor>>
  /\ last' = Quiet

\* updateMessage after the await
updateMessageDone(i) ==
  LET r == reqs[i] IN
  /\ panel = "messages"
  /\ r.kind = "patch" /\ r.st # "sent"
  /\ reqs' = RemoveAt(reqs, i)
  /\ IF r.st = "ok"
     THEN /\ list' = MapReplace(list, r.id, r.data[1])
          /\ selected' = IF r.cap.selectedId = r.id THEN r.data ELSE selected
          /\ last' = Completed("update", TRUE, 0, r.id)
     ELSE /\ last' = Completed("update", FALSE, 1, 0)
          /\ UNCHANGED <<list, selected>>
  /\ isSaving' = FALSE
  /\ UNCHANGED appVars
  /\ UNCHANGED <<content, resumeLink, validationErrors, timers>>
  /\ UNCHANGED <<searchTerm, panel, filter, confirmed, server, nextId, ops, isLoading,
                 isEditing, editingId, form, modalOpen, toDelete, showEditor>>

\* the trash button of the detail pane
confirmDelete ==
  /\ PageClickable
  /\ selected # <<>> /\ ~isSaving
  /\ toDelete' = SelectedId
  /\ modalOpen' = TRUE
  /\ UNCHANGED appVars
  /\ UNCHANGED <<content, resumeLink, validationErrors, timers>>
  /\ UNCHANGED <<searchTerm, panel, filter, confirmed, server, nextId, ops, reqs, list,
                 isLoading, isSaving, isEditing, editingId, form, selected,
                 showEditor>>
  /\ last' = Quiet

\* the modal's Cancel button and onRequestClose
cancelDelete ==
  /\ MessagesShown /\ modalOpen
  /\ modalOpen' = FALSE
  /\ last' = Completed("declined", TRUE, 0, 0)
  /\ UNCHANGED appVars
  /\ UNCHANGED <<content, resumeLink, validationErrors, timers>>
  /\ UNCHANGED <<searchTerm, panel, filter, confirmed, server, nextId, ops, reqs, list,
                 isLoading, isSaving, isEditing, editingId, form, selected,
                 toDelete, showEditor>>

\* handleDelete up to the await: the modal's Delete button
Messages_handleDelete ==
  /\ MessagesShown /\ modalOpen /\ ~isSaving
  /\ toDelete # 0                         \* if (!messageToDelete) return
  /\ ops < MaxOps /\ Len(reqs) < MaxInFlight
  /\ confirmed' = confirmed \cup {toDelete}
  /\ isSaving' = TRUE
  /\ ops' = ops + 1
  /\ reqs' = Append(reqs, Request("delete", "api", toDelete, NoBody,
                                  [selectedId |-> SelectedId]))
  /\ UNCHANGED appVars
  /\ UNCHANGED <<content, resumeLink, validationErrors, timers>>
  /\ UNCHANGED <<searchTerm, panel, filter, server, nextId, list, isLoading, isEditing,
                 editingId, form, selected, modalOpen, toDelete, showEditor>>
  /\ last' = Quiet

\* selectedMessage?._id === messageToDelete, on the closure's selectedMessage
Messages_clearSelection(sel, closureSelectedId, id) ==
  IF closureSelectedId = id THEN <<>> ELSE sel

\* handleDelete after the await
Messages_handleDeleteDone(i) ==
  LET r == reqs[i] IN
  /\ panel = "messages"
  /\ r.kind = "delete" /\ r.st # "sent"
  /\ reqs' = RemoveAt(reqs, i)
  /\ IF r.st = "ok"
     THEN /\ list' = FilterOut(list, r.id)
          /\ selected' = Messages_clearSelection(selected, r.cap.selectedId, r.id)
          /\ last' = Completed("delete", TRUE, 0, r.id)
     ELSE /\ last' = Completed("delete", FALSE, 1, r.id)
          /\ UNCHANGED <<list, selected>>
  /\ isSaving' = FALSE
  /\ modalOpen' = FALSE
  /\ toDelete' = 0
  /\ UNCHANGED appVars
  /\ UNCHANGED <<content, resumeLink, validationErrors, timers>>
  /\ UNCHANGED <<searchTerm, panel, filter, confirmed, server, nextId, ops, isLoading,
                 isEditing, editingId, form, showEditor>>

\* ---- Blog ----------------------------------------------------------------
\* The editor is a full-screen overlay above the grid of posts.
GridClickable == panel = "blog" /\ ~isLoading /\ ~showEditor

\* fetchPosts after the await (apiClient itself raises no notification)
fetchPostsDone(i) ==
  LET r == reqs[i] IN
  /\ panel = "blog"
  /\ r.kind = "load" /\ r.st # "sent"
  /\ reqs' = RemoveAt(reqs, i)
  /\ IF r.st = "ok"
     THEN /\ list' = r.data
          /\ last' = Completed("load", TRUE, 0, 0)
     ELSE /\ last' = Completed("load", FALSE, 1, 0)
          /\ UNCHANGED list
  /\ isLoading' = FALSE
  /\ UNCHANGED appVars
  /\ UNCHANGED <<content, resumeLink, validationErrors, timers>>
  /\ UNCHANGED <<searchTerm, panel, filter, confirmed, server, nextId, ops, isSaving,
                 isEditing, editingId, form, selected, modalOpen, toDelete,
                 showEditor>>

\* openEditor(post) from a card (k > 0), openEditor() from New Post (k = 0)
openEditor(k) ==
  /\ GridClickable
  /\ k \in DOMAIN list \cup {0}
  /\ editingId' = IF k = 0 THEN 0 ELSE list[k].id
  /\ form' = IF k = 0 THEN EmptyForm("blog")
             ELSE [name |-> list[k].name, status |-> list[k].status]
  /\ showEditor' = TRUE
  /\ UNCHANGED appVars
  /\ UNCHANGED <<content, resumeLink, validationErrors, timers>>
  /\ UNCHANGED <<searchTerm, panel, filter, confirmed, server, nextId, ops, reqs, list,
                 isLoading, isSaving, isEditing, selected, modalOpen, toDelete>>
  /\ last' = Quiet

\* closeEditor: the X and Cancel buttons, which isSaving does not disable
closeEditor ==
  /\ panel = "blog" /\ showEditor
  /\ showEditor' = FALSE
  /\ editingId' = 0
  /\ UNCHANGED appVars
  /\ UNCHANGED <<content, resumeLink, validationErrors, timers>>
  /\ UNCHANGED <<searchTerm, panel, filter, confirmed, server, nextId, ops, reqs, list,
                 isLoading, isSaving, isEditing, form, selected, modalOpen,
                 toDelete>>
  /\ last' = Quiet

Blog_handleInputChange(value) ==
  /\ panel = "blog" /\ showEditor
  /\ form.name # value
  /\ form' = [form EXCEPT !.name = value]
  /\ UNCHANGED appVars
  /\ UNCHANGED <<content, resumeLink, validationErrors, timers>>
  /\ UNCHANGED <<searchTerm, panel, filter, confirmed, server, nextId, ops, reqs, list,
                 isLoading, isSaving, isEditing, editingId, selected,
                 modalOpen, toDelete, showEditor>>
  /\ last' = Quiet

\* savePost up to its first await
savePost ==
  /\ panel = "blog" /\ showEditor /\ ~isSaving
  /\ IF form.name = ""
     THEN /\ last' = Completed("invalid", FALSE, 1, 0)
          /\ UNCHANGED <<reqs, ops, isSaving>>
     ELSE /\ ops < MaxOps
          /\ isSaving' = TRUE
          /\ ops' = ops + 1
          /\ reqs' = Append(reqs,
                IF editingId # 0
                THEN Request("update", "api", editingId, form, NoCap)
                ELSE Request("create", "api", 0, form, NoCap))
          /\ last' = Quiet
  /\ UNCHANGED appVars
  /\ UNCHANGED <<content, resumeLink, validationErrors, timers>>
  /\ UNCHANGED <<searchTerm, panel, filter, confirmed, server, nextId, list, isLoading,
                 isEditing, editingId, form, selected, modalOpen, toDelete,
                 showEditor>>

\* savePost between its two awaits: the response of the PUT / POST is not
\* used; the collection is requested again
savePostDone(i) ==
  LET r == reqs[i] IN
  /\ panel = "blog"
  /\ r.kind \in {"create", "update"} /\ r.st # "sent"
  /\ IF r.st = "ok"
     THEN /\ reqs' = Append(RemoveAt(reqs, i),
                            Request("refresh", "api", 0, NoBody,
                                    [saved |-> r.kind]))
          /\ last' = Completed(r.kind, TRUE, 0, r.data[1].id)
          /\ UNCHANGED isSaving
     ELSE /\ reqs' = RemoveAt(reqs, i)
          /\ last' = Completed(r.kind, FALSE, 1, 0)
          /\ isSaving' = FALSE
  /\ UNCHANGED appVars
  /\ UNCHANGED <<content, resumeLink, validationErrors, timers>>
  /\ UNCHANGED <<searchTerm, panel, filter, confirmed, server, nextId, ops, list,
                 isLoading, isEditing, editingId, form, selected, modalOpen,
                 toDelete, showEditor>>

\* savePost after its second await
savePostRefreshDone(i) ==
  LET r == reqs[i] IN
  /\ panel = "blog"
  /\ r.kind = "refresh" /\ r.st # "sent"
  /\ reqs' = RemoveAt(reqs, i)
  /\ IF r.st = "ok"
     THEN /\ list' = r.data
          /\ showEditor' = FALSE
          /\ editingId' = 0
          /\ last' = Completed("refresh", TRUE, 0, 0)
     ELSE /\ last' = Completed("refresh", FALSE, 1, 0)
          /\ UNCHANGED <<list, showEditor, editingId>>
  /\ isSaving' = FALSE
  /\ UNCHANGED appVars
  /\ UNCHANGED <<content, resumeLink, validationErrors, timers>>
  /\ UNCHANGED <<searchTerm, panel, filter, confirmed, server, nextId, ops, isLoading,
                 isEditing, form, selected, modalOpen, toDelete>>

\* deletePost up to the await.  Neither deletePost nor toggleStatus touches
\* isSaving, and both keep the posts array of the render they were called in.
deletePost(k, answer) ==
  /\ GridClickable
  /\ k \in DOMAIN list
  /\ IF ~answer
     THEN /\ last' = Completed("declined", TRUE, 0, 0)
          /\ UNCHANGED <<reqs, ops, confirmed>>
     ELSE /\ ops < MaxOps /\ Len(reqs) < MaxInFlight
          /\ confirmed' = confirmed \cup {list[k].id}
          /\ ops' = ops + 1
          /\ reqs' = Append(reqs, Request("delete", "api", list[k].id, NoBody,
                                          [posts |-> list]))
          /\ last' = Quiet
  /\ UNCHANGED appVars
  /\ UNCHANGED <<content, resumeLink, validationErrors, timers>>
  /\ UNCHANGED <<searchTerm, panel, filter, server, nextId, list, isLoading, isSaving,
                 isEditing, editingId, form, selected, modalOpen, toDelete,
                 showEditor>>

\* setPosts(posts.filter(post => post._id !== postId))
deletePostDone(i) ==
  LET r == reqs[i] IN
  /\ panel = "blog"
  /\ r.kind = "delete" /\ r.st # "sent"
  /\ reqs' = RemoveAt(reqs, i)
  /\ IF r.st = "ok"
     THEN /\ list' = FilterOut(r.cap.posts, r.id)
          /\ last' = Completed("delete", TRUE, 0, r.id)
     ELSE /\ last' = Completed("delete", FALSE, 1, r.id)
          /\ UNCHANGED list
  /\ UNCHANGED appVars
  /\ UNCHANGED <<content, resumeLink, validationErrors, timers>>
  /\ UNCHANGED <<searchTerm, panel, filter, confirmed, server, nextId, ops, isLoading,
                 isSaving, isEditing, editingId, form, selected, modalOpen,
                 toDelete, showEditor>>

Flip_publishOnly(status) == "published"

Flip(status) == IF status = "published" THEN "draft" ELSE "published"

\* toggleStatus up to the await: a PUT of the whole post with its status flipped
toggleStatus(k) ==
  /\ GridClickable
  /\ k \in DOMAIN list
  /\ ops < MaxOps /\ Len(reqs) < MaxInFlight
  /\ ops' = ops + 1
  /\ LET updatedPost == [list[k] EXCEPT !.status = Flip(@)] IN
     reqs' = Append(reqs, Request("status", "api", list[k].id,
                                  [name |-> updatedPost.name,
                                   status |-> updatedPost.status],
                                  [posts |-> list, updatedPost |-> updatedPost]))
  /\ UNCHANGED appVars
  /\ UNCHANGED <<content, resumeLink, validationErrors, timers>>
  /\ UNCHANGED <<searchTerm, panel, filter, confirmed, server, nextId, list, isLoading,
                 isSaving, isEditing, editingId, form, selected, modalOpen,
                 toDelete, showEditor>>
  /\ last' = Quiet

\* setPosts(posts.map(p => p._id === post._id ? {...updatedPost} : p))
toggleStatusDone(i) ==
  LET r == reqs[i] IN
  /\ panel = "blog"
  /\ r.kind = "status" /\ r.st # "sent"
  /\ reqs' = RemoveAt(reqs, i)
  /\ IF r.st = "ok"
     THEN /\ list' = MapReplace(r.cap.posts, r.id, r.cap.updatedPost)
          /\ last' = Completed("status", TRUE, 0, r.id)
     ELSE /\ last' = Completed("status", FALSE, 1, 0)
          /\ UNCHANGED list
  /\ UNCHANGED appVars
  /\ UNCHANGED <<content, resumeLink, validationErrors, timers>>
  /\ UNCHANGED <<searchTerm, panel, filter, confirmed, server, nextId, ops, isLoading,
                 isSaving, isEditing, editingId, form, selected, modalOpen,
                 toDelete, showEditor>>

\* ---- Hero: the resume link ----------------------------------------------
\* value.trim()
trim(text) ==
  LET inner == {k \in DOMAIN text : text[k] # " "} IN
  IF inner = {} THEN <<>>
  ELSE LET first == CHOOSE k \in inner : \A j \in inner : k <= j
           final == CHOOSE k \in inner : \A j \in inner : k >= j
       IN SubSeq(text, first, final)

ParsesAsURL_anyText(link) == trim(link) # <<>>

\* new URL(link) does not throw: after the blanks around it are dropped the
\* text starts with a scheme, letters followed by a colon
ParsesAsURL(link) ==
  LET t == trim(link) IN
  \E k \in 2..Len(t) :
    /\ t[k] = ":"
    /\ \A j \in 1..(k - 1) : t[j] \notin {":", " ", "/"}

\* validateField(field, value) on the validationErrors of the render
validateField(errors, field, value) ==
  IF trim(value) = <<>> THEN errors \cup {field} ELSE errors \ {field}

\* While isLoading the editor returns the spinner alone.
HeroShown == panel \in HeroPanels /\ ~isLoading

\* fetchContent after the await
fetchContentDone(i) ==
  LET r == reqs[i] IN
  /\ panel \in HeroPanels
  /\ r.kind = "load" /\ r.st # "sent"
  /\ reqs' = RemoveAt(reqs, i)
  /\ IF r.st = "ok"
     THEN /\ content' = [f \in DOMAIN EmptyContent |-> r.data[1][f]]
          /\ resumeLink' = r.data[1].resume
          /\ last' = Completed("load", TRUE, 0, 0)
     ELSE /\ last' = Completed("load", FALSE, 1, 0)
          /\ UNCHANGED <<content, resumeLink>>
  /\ isLoading' = FALSE
  /\ UNCHANGED appVars
  /\ UNCHANGED <<validationErrors, timers>>
  /\ UNCHANGED <<searchTerm, panel, filter, confirmed, server, nextId, ops,
                 list, isSaving, isEditing, editingId, form, selected,
                 modalOpen, toDelete, showEditor>>

\* the Edit button next to the link (setResumeLink(content.resume.url)) or
\* the Add Resume Link button shown when there is none
Hero_openResumeModal ==
  /\ HeroShown /\ ~modalOpen
  /\ modalOpen' = TRUE
  /\ resumeLink' = IF content.resume # <<>> THEN content.resume ELSE resumeLink
  /\ last' = Quiet
  /\ UNCHANGED appVars
  /\ UNCHANGED <<content, validationErrors, timers>>
  /\ UNCHANGED <<searchTerm, panel, filter, confirmed, server, nextId, ops,
                 reqs, list, isLoading, isSaving, isEditing, editingId, form,
                 selected, toDelete, showEditor>>

\* the X and the Cancel button of the modal; neither is disabled by isSaving
Hero_closeResumeModal ==
  /\ HeroShown /\ modalOpen
  /\ modalOpen' = FALSE
  /\ resumeLink' = content.resume
  /\ last' = Completed("declined", TRUE, 0, 0)
  /\ UNCHANGED appVars
  /\ UNCHANGED <<content, validationErrors, timers>>
  /\ UNCHANGED <<searchTerm, panel, filter, confirmed, server, nextId, ops,
                 reqs, list, isLoading, isSaving, isEditing, editingId, form,
                 selected, toDelete, showEditor>>

\* the input of the modal
Hero_setResumeLink(value) ==
  /\ HeroShown /\ modalOpen
  /\ value # resumeLink
  /\ resumeLink' = value
  /\ validationErrors' = IF panel = "hero"
                         THEN validateField(validationErrors, "resumeLink", value)
                         ELSE validationErrors
  /\ last' = Quiet
  /\ UNCHANGED appVars
  /\ UNCHANGED <<content, timers>>
  /\ UNCHANGED <<searchTerm, panel, filter, confirmed, server, nextId, ops,
                 reqs, list, isLoading, isSaving, isEditing, editingId, form,
                 selected, modalOpen, toDelete, showEditor>>

\* the Save button of the modal: disabled={isSaving}, and in the editor with
\* the About fields also while the box is blank
updateResumeLinkEnabled ==
  /\ HeroShown /\ modalOpen /\ ~isSaving
  /\ panel = "hero" => trim(resumeLink) # <<>>

\* updateResumeLink up to the await
updateResumeLink ==
  /\ updateResumeLinkEnabled
  /\ validationErrors' = IF panel = "hero"
                         THEN validateField(validationErrors, "resumeLink",
                                            resumeLink)
                         ELSE validationErrors
  /\ IF panel = "heroV1" /\ resumeLink = <<>>      \* if (!resumeLink)
     THEN /\ last' = Completed("rejected", FALSE, 1, 0)
          /\ UNCHANGED <<reqs, ops, isSaving>>
     ELSE IF ~ParsesAsURL(resumeLink)
     THEN /\ last' = Completed("rejected", FALSE, 1, 0)
          /\ UNCHANGED <<reqs, ops, isSaving>>
     ELSE /\ ops < MaxOps /\ Len(reqs) < MaxInFlight
          /\ isSaving' = TRUE
          /\ ops' = ops + 1
          /\ reqs' = Append(reqs, Request("resume", "api", 1,
                                          [url |-> resumeLink], NoCap))
          /\ last' = Quiet
  /\ UNCHANGED appVars
  /\ UNCHANGED <<content, resumeLink, timers>>
  /\ UNCHANGED <<searchTerm, panel, filter, confirmed, server, nextId, list,
                 isLoading, isEditing, editingId, form, selected, modalOpen,
                 toDelete, showEditor>>

\* updateResumeLink after the await
updateResumeLinkDone(i) ==
  LET r == reqs[i] IN
  /\ panel \in HeroPanels
  /\ r.kind = "resume" /\ r.st # "sent"
  /\ reqs' = RemoveAt(reqs, i)
  /\ IF r.st = "ok"
     THEN /\ content' = [content EXCEPT !.resume = r.data[1].resume]
          /\ modalOpen' = FALSE
          /\ last' = Completed("resume", TRUE, 0, 1)
     ELSE /\ last' = Completed("resume", FALSE, 1, 1)
          /\ UNCHANGED <<content, modalOpen>>
  /\ isSaving' = FALSE
  /\ UNCHANGED appVars
  /\ UNCHANGED <<resumeLink, validationErrors, timers>>
  /\ UNCHANGED <<searchTerm, panel, filter, confirmed, server, nextId, ops,
                 list, isLoading, isEditing, editingId, form, selected,
                 toDelete, showEditor>>

\* ---- Education: records kept in the component only -----------------------
handleAddEducation ==
  /\ panel = "education" /\ ~isEditing
  /\ ops < MaxOps
  /\ ops' = ops + 1
  /\ list' = Append(list, [id |-> nextId, name |-> form.name])  \* Date.now()
  /\ nextId' = nextId + 1
  /\ resetFormState
  /\ UNCHANGED appVars
  /\ UNCHANGED <<content, resumeLink, validationErrors, timers>>
  /\ UNCHANGED <<searchTerm, panel, filter, confirmed, server, reqs, isLoading, isSaving,
                 selected, modalOpen, toDelete, showEditor>>
  /\ last' = Quiet

handleEditEducation(k) ==
  /\ panel = "education"
  /\ k \in DOMAIN list
  /\ editingId' = list[k].id
  /\ form' = [name |-> list[k].name]
  /\ isEditing' = TRUE
  /\ UNCHANGED appVars
  /\ UNCHANGED <<content, resumeLink, validationErrors, timers>>
  /\ UNCHANGED <<searchTerm, panel, filter, confirmed, server, nextId, ops, reqs, list,
                 isLoading, isSaving, selected, modalOpen, toDelete,
                 showEditor>>
  /\ last' = Quiet

handleUpdateEducation ==
  /\ panel = "education" /\ isEditing
  /\ editingId # 0
  /\ list' = MapReplace(list, editingId, [id |-> editingId, name |-> form.name])
  /\ resetFormState
  /\ UNCHANGED appVars
  /\ UNCHANGED <<content, resumeLink, validationErrors, timers>>
  /\ UNCHANGED <<searchTerm, panel, filter, confirmed, server, nextId, ops, reqs,
                 isLoading, isSaving, selected, modalOpen, toDelete,
                 showEditor>>
  /\ last' = Quiet

\* the Delete button of an entry: no dialog, the entry is gone at once
handleDeleteEducation(k) ==
  /\ panel = "education"
  /\ k \in DOMAIN list
  /\ list' = FilterOut(list, list[k].id)
  /\ last' = Completed("delete", TRUE, 0, list[k].id)
  /\ UNCHANGED appVars
  /\ UNCHANGED <<content, resumeLink, validationErrors, timers>>
  /\ UNCHANGED <<searchTerm, panel, filter, confirmed, server, nextId, ops, reqs,
                 isLoading, isSaving, isEditing, editingId, form, selected,
                 modalOpen, toDelete, showEditor>>

Education_resetForm ==
  /\ panel = "education" /\ isEditing
  /\ resetFormState
  /\ UNCHANGED appVars
  /\ UNCHANGED <<content, resumeLink, validationErrors, timers>>
  /\ UNCHANGED <<searchTerm, panel, filter, confirmed, server, nextId, ops, reqs, list,
                 isLoading, isSaving, selected, modalOpen, toDelete,
                 showEditor>>
  /\ last' = Quiet

Education_setFormData(value) ==
  /\ panel = "education"
  /\ form.name # value
  /\ form' = [form EXCEPT !.name = value]
  /\ UNCHANGED appVars
  /\ UNCHANGED <<content, resumeLink, validationErrors, timers>>
  /\ UNCHANGED <<searchTerm, panel, filter, confirmed, server, nextId, ops, reqs, list,
                 isLoading, isSaving, isEditing, editingId, selected,
                 modalOpen, toDelete, showEditor>>
  /\ last' = Quiet

Next ==
  \/ \E i \in DOMAIN reqs : ServerOk(i)
  \/ \E i \in DOMAIN reqs : ServerFail(i)
  \/ \E i \in DOMAIN reqs : fetchDone(i)
  \/ \E f \in {"name", "text", "rating"} :
       \E v \in FieldValues(f) : handleInputChange(f, v)
  \/ handleSubmit
  \/ \E i \in DOMAIN reqs : handleSubmitDone(i)
  \/ \E k \in DOMAIN list : handleEdit(k)
  \/ resetForm
  \/ \E k \in DOMAIN list : \E c \in BOOLEAN : handleDelete(k, c)
  \/ \E i \in DOMAIN reqs : handleDeleteDone(i)
  \/ \E k \in DOMAIN list : toggleActive(k)
  \/ \E i \in DOMAIN reqs : toggleActiveDone(i)
  \/ \E i \in DOMAIN reqs : fetchSkillsDone(i)
  \/ \E v \in FieldValues("name") : Skills_handleInputChange(v)
  \/ \E k \in DOMAIN list : Skills_handleEdit(k)
  \/ Skills_resetForm
  \/ Skills_handleSubmit
  \/ \E i \in DOMAIN reqs : Skills_handleSubmitDone(i)
  \/ \E k \in DOMAIN list : \E c \in BOOLEAN : Skills_handleDelete(k, c)
  \/ \E k \in DOMAIN list : openDeleteModal(k)
  \/ closeDeleteModal
  \/ SkillsModal_handleDelete
  \/ \E i \in DOMAIN reqs : Skills_handleDeleteDone(i)
  \/ \E k \in DOMAIN list : \E d \in {"up", "down"} : moveSkill(k, d)
  \/ \E i \in DOMAIN reqs : moveSkillDone(i)
  \/ \E i \in DOMAIN reqs : Skills_unmountedDone(i)
  \/ \E k \in DOMAIN timers : fetchMessages(k)
  \/ \E f \in Filters : setFilter(f)
  \/ \E i \in DOMAIN reqs : fetchMessagesDone(i)
  \/ \E k \in DOMAIN list : selectMessage(k)
  \/ \E f \in {"isRead", "isStarred"} : toggleFlag(f)
  \/ toggleArchive
  \/ \E i \in DOMAIN reqs : updateMessageDone(i)
  \/ confirmDelete
  \/ cancelDelete
  \/ Messages_handleDelete
  \/ \E i \in DOMAIN reqs : Messages_handleDeleteDone(i)
  \/ \E i \in DOMAIN reqs : fetchPostsDone(i)
  \/ \E k \in DOMAIN list \cup {0} : openEditor(k)
  \/ closeEditor
  \/ \E v \in FieldValues("name") : Blog_handleInputChange(v)
  \/ savePost
  \/ \E i \in DOMAIN reqs : savePostDone(i)
  \/ \E i \in DOMAIN reqs : savePostRefreshDone(i)
  \/ \E k \in DOMAIN list : \E c \in BOOLEAN : deletePost(k, c)
  \/ \E i \in DOMAIN reqs : deletePostDone(i)
  \/ \E k \in DOMAIN list : toggleStatus(k)
  \/ \E i \in DOMAIN reqs : toggleStatusDone(i)
  \/ \E i \in DOMAIN reqs : fetchContentDone(i)
  \/ Hero_openResumeModal
  \/ Hero_closeResumeModal
  \/ \E value \in Links : Hero_setResumeLink(value)
  \/ updateResumeLink
  \/ \E i \in DOMAIN reqs : updateResumeLinkDone(i)
  \/ handleAddEducation
  \/ \E k \in DOMAIN list : handleEditEducation(k)
  \/ handleUpdateEducation
  \/ \E k \in DOMAIN list : handleDeleteEducation(k)
  \/ Education_resetForm
  \/ \E v \in FieldValues("name") : Education_setFormData(v)

Spec == Init /\ [][Next]_vars

\* ---- every request is answered and every answer is handled ----------------
\* the store answers a request that is not a poll or a load
Respond(i) ==
  /\ reqs[i].kind # "load"
  /\ ServerOk(i) \/ ServerFail(i)

\* The handler that awaits a request goes on when the answer is there.
Settle(i) ==
  /\ reqs[i].kind # "load"
  /\ \/ handleSubmitDone(i)
     \/ handleDeleteDone(i)
     \/ toggleActiveDone(i)
     \/ Skills_handleSubmitDone(i)
     \/ Skills_handleDeleteDone(i)
     \/ moveSkillDone(i)
     \/ Skills_unmountedDone(i)
     \/ updateMessageDone(i)
     \/ Messages_handleDeleteDone(i)
     \/ savePostDone(i)
     \/ savePostRefreshDone(i)
     \/ deletePostDone(i)
     \/ toggleStatusDone(i)
     \/ updateResumeLinkDone(i)

LiveSpec ==
  /\ Init
  /\ [][Next]_vars
  /\ WF_vars(\E i \in DOMAIN reqs : Respond(i))
  /\ WF_vars(\E i \in DOMAIN reqs : Settle(i))

\* ---- App: the session gate and the choice of the panel --------------------
\* what App returns: the spinner, <SignInPage />, or the shell around a panel
App_render_signedInFirst(loaded, signedIn) ==
  IF ~signedIn THEN "signin" ELSE IF ~loaded THEN "loading" ELSE "shell"

App_render(loaded, signedIn) ==
  IF ~loaded THEN "loading" ELSE IF ~signedIn THEN "signin" ELSE "shell"

\* the ids of Sidebar's menuItems
MenuIds == {"hero", "skills", "education", "projects", "experience",
            "messages"}

renderSection_dropsMessages(section) ==
  IF section \in {"dashboard", "hero", "about", "experience", "skills",
                  "education", "certificates", "projects"}
  THEN section ELSE "dashboard"

\* the switch of renderSection: the component mounted inside <main>
renderSection(section) ==
  CASE section = "dashboard"    -> "dashboard"
    [] section = "hero"         -> "hero"
    [] section = "about"        -> "about"
    [] section = "experience"   -> "experience"
    [] section = "skills"       -> "skills"
    [] section = "education"    -> "education"
    [] section = "certificates" -> "certificates"
    [] section = "projects"     -> "projects"
    [] section = "messages"     -> "messages"
    [] OTHER                    -> "dashboard"

\* the panels whose effect starts a load when they mount
LoadsOnMount == {"experience", "skills", "messages"}

\* the state of the mounted panel; it is lost when the panel unmounts
panelVars == <<panel, list, reqs, isLoading, isSaving, isEditing, editingId,
               form, selected, modalOpen, toDelete, showEditor, filter,
               searchTerm, content, resumeLink, validationErrors, timers>>

Mount_keepsForm(p) ==
  /\ panel' = p
  /\ list' = IF p = "education" THEN <<[id |-> 1, name |-> Stored]>> ELSE <<>>
  /\ reqs' = <<>>
  /\ isLoading' = (p \in LoadsOnMount)
  /\ timers' = MountTimers(p)
  /\ UNCHANGED <<isSaving, isEditing, editingId, form, selected, modalOpen,
                 toDelete, showEditor, filter, searchTerm, content,
                 resumeLink, validationErrors>>

\* a panel mounts with its initial state ("none": no panel is mounted);
\* what was in flight for the panel before it is answered to nobody
Mount(p) ==
  /\ panel' = p
  /\ list' = IF p = "education" THEN <<[id |-> 1, name |-> Stored]>> ELSE <<>>
  /\ reqs' = IF p \in LoadsOnMount
             THEN <<Request("load", "api", 0,
                            IF p = "messages" THEN MessagesQuery("all", <<>>)
                            ELSE NoBody, NoCap)>>
             ELSE <<>>
  /\ isLoading' = (p \in LoadsOnMount)
  /\ isSaving' = FALSE
  /\ isEditing' = FALSE
  /\ editingId' = 0
  /\ form' = EmptyForm(p)
  /\ selected' = <<>>
  /\ modalOpen' = FALSE
  /\ toDelete' = 0
  /\ showEditor' = FALSE
  /\ filter' = "all"
  /\ searchTerm' = <<>>
  /\ content' = EmptyContent
  /\ resumeLink' = <<>>
  /\ validationErrors' = {}
  /\ timers' = MountTimers(p)   \* the cleanup of the effect, then the effect

\* App renders again with the new values of its hooks
App ==
  /\ screen' = App_render(isLoaded', isSignedIn')
  /\ LET p == IF screen' = "shell" THEN renderSection(activeSection')
              ELSE "none"
     IN IF p = panel
        THEN UNCHANGED panelVars /\ last' = Quiet
        ELSE Mount(p) /\ last' = Completed("mount", TRUE, 0, 0)
  /\ UNCHANGED <<server, nextId, ops, confirmed>>

\* the identity provider has found out whether there is a session
authLoaded(signedIn) ==
  /\ ~isLoaded
  /\ isLoaded' = TRUE
  /\ isSignedIn' = signedIn
  /\ UNCHANGED <<activeSection, isOpen>>
  /\ App

\* the operator signs in on <SignInPage />
signIn ==
  /\ isLoaded /\ ~isSignedIn
  /\ isSignedIn' = TRUE
  /\ UNCHANGED <<isLoaded, activeSection, isOpen>>
  /\ App

\* the session ends; Sidebar unmounts with the shell and loses isOpen
signOut ==
  /\ isLoaded /\ isSignedIn
  /\ isSignedIn' = FALSE
  /\ isOpen' = FALSE
  /\ UNCHANGED <<isLoaded, activeSection>>
  /\ App

\* a button of the sidebar: onSectionChange(item.id); setIsOpen(false)
onSectionChange(id) ==
  /\ screen = "shell"
  /\ activeSection' = id
  /\ isOpen' = FALSE
  /\ UNCHANGED <<isLoaded, isSignedIn>>
  /\ App

\* the hamburger button: setIsOpen(!isOpen)
Sidebar_toggle ==
  /\ screen = "shell"
  /\ isOpen' = ~isOpen
  /\ UNCHANGED <<isLoaded, isSignedIn, activeSection>>
  /\ App

\* the overlay behind the open sidebar: setIsOpen(false)
Sidebar_overlay ==
  /\ screen = "shell" /\ isOpen
  /\ isOpen' = FALSE
  /\ UNCHANGED <<isLoaded, isSignedIn, activeSection>>
  /\ App

\* The page has just been opened: the provider has not answered yet
\* (isSignedIn is not yet meaningful), and no panel is mounted.
AppInit ==
  /\ isLoaded = FALSE
  /\ isSignedIn \in BOOLEAN
  /\ activeSection = "dashboard"
  /\ isOpen = FALSE
  /\ screen = App_render(isLoaded, isSignedIn)
  /\ panel = "none"
  /\ server = <<>>
  /\ nextId = NumInitial + 1
  /\ ops = 0
  /\ reqs = <<>>
  /\ list = <<>>
  /\ isLoading = FALSE
  /\ isSaving = FALSE
  /\ isEditing = FALSE
  /\ editingId = 0
  /\ form = EmptyForm("none")
  /\ selected = <<>>
  /\ modalOpen = FALSE
  /\ toDelete = 0
  /\ showEditor = FALSE
  /\ filter = "all"
  /\ searchTerm = <<>>
  /\ content = EmptyContent
  /\ resumeLink = <<>>
  /\ validationErrors = {}
  /\ timers = <<>>
  /\ confirmed = {}
  /\ last = Quiet

\* App, Sidebar and, of the panels, the one that keeps its records locally
\* and the one that polls
AppNext ==
  \/ \E signedIn \in BOOLEAN : authLoaded(signedIn)
  \/ signIn
  \/ signOut
  \/ \E id \in MenuIds : onSectionChange(id)
  \/ Sidebar_toggle
  \/ Sidebar_overlay
  \/ \E k \in DOMAIN timers : fetchMessages(k)
  \/ \E f \in Filters : setFilter(f)
  \/ \E term \in {<<>>, <<"a">>} : setSearchTerm(term)
  \/ \E i \in DOMAIN reqs : panel = "messages" /\ ServerOk(i)
  \/ \E i \in DOMAIN reqs : panel = "messages" /\ ServerFail(i)
  \/ \E i \in DOMAIN reqs : fetchMessagesDone(i)
  \/ handleAddEducation
  \/ \E k \in DOMAIN list : handleEditEducation(k)
  \/ handleUpdateEducation
  \/ \E k \in DOMAIN list : handleDeleteEducation(k)
  \/ Education_resetForm
  \/ \E v \in FieldValues("name") : Education_setFormData(v)

AppSpec == AppInit /\ [][AppNext]_vars

\* ---- the list the Messages panels show, as a function ----------------------
MaxMessages == 2

\* Text is a sequence of characters.
Chars == {"a", "A", "b"}

toLowerCase(text) ==
  [i \in DOMAIN text |-> IF text[i] = "A" THEN "a" ELSE text[i]]

\* text.includes(term)
includes(text, term) ==
  \E i \in 0..(Len(text) - Len(term)) : SubSeq(text, i + 1, i + Len(term)) = term

LocalFilters == {"all", "unread", "starred", "archived"}

\* the variant of the panel that keeps its messages locally
Local_filteredMessages(l, f, term) ==
  SelectSeq(l, LAMBDA msg :
    LET matchesSearch ==
          \/ includes(toLowerCase(msg.name), toLowerCase(term))
          \/ includes(toLowerCase(msg.subject), toLowerCase(term))
    IN IF ~matchesSearch THEN FALSE
       ELSE CASE f = "unread"   -> ~msg.isRead /\ ~msg.isArchived
              [] f = "starred"  -> msg.isStarred /\ ~msg.isArchived
              [] f = "archived" -> msg.isArchived
              [] OTHER          -> ~msg.isArchived)

\* the values of the fields of a message; sender and subject are short texts
MessageTexts == {<<"A">>, <<"a", "b">>}
SearchTerms == {<<>>, <<"a">>, <<"B">>, <<"b", "a">>}

MessageFields ==
  [isRead : BOOLEAN, isStarred : BOOLEAN, isArchived : BOOLEAN,
   name : MessageTexts, subject : MessageTexts]

\* the lists of at most MaxMessages messages
MessageLists ==
  UNION {{[k \in 1..n |->
             [id |-> k, rev |-> 0, isRead |-> fs[k].isRead,
              isStarred |-> fs[k].isStarred, isArchived |-> fs[k].isArchived,
              name |-> fs[k].name, subject |-> fs[k].subject]]
          : fs \in [1..n -> MessageFields]} : n \in 0..MaxMessages}

\* one of the two panels with any list, filter and search term
FilterInit ==
  /\ panel \in {"messages", "messagesLocal"}
  /\ list \in MessageLists
  /\ filter \in IF panel = "messages" THEN Filters ELSE LocalFilters
  /\ searchTerm \in IF panel = "messages" THEN {<<>>} ELSE SearchTerms
  /\ server = <<>>
  /\ nextId = MaxMessages + 1
  /\ ops = 0
  /\ reqs = <<>>
  /\ isLoading = FALSE
  /\ isSaving = FALSE
  /\ isEditing = FALSE
  /\ editingId = 0
  /\ form = EmptyForm(panel)
  /\ selected = <<>>
  /\ modalOpen = FALSE
  /\ toDelete = 0
  /\ showEditor = FALSE
  /\ confirmed = {}
  /\ last = Quiet
  /\ content = EmptyContent
  /\ resumeLink = <<>>
  /\ validationErrors = {}
  /\ timers = <<>>
  /\ isLoaded = TRUE /\ isSignedIn = TRUE
  /\ activeSection = "messages"
  /\ isOpen = FALSE
  /\ screen = "shell"

\* the list that is shown becomes the list; last.id counts what was left out
Filtered(shown) ==
  /\ list' = shown
  /\ last' = Completed("filter", TRUE, 0, Len(list) - Len(shown))
  /\ UNCHANGED appVars
  /\ UNCHANGED <<content, resumeLink, validationErrors, timers>>
  /\ UNCHANGED <<searchTerm, panel, filter, confirmed, server, nextId, ops,
                 reqs, isLoading, isSaving, isEditing, editingId, form,
                 selected, modalOpen, toDelete, showEditor>>

Messages_applyFilter ==
  /\ panel = "messages"
  /\ Filtered(filteredMessages(list, filter))

Local_applyFilter ==
  /\ panel = "messagesLocal"
  /\ Filtered(Local_filteredMessages(list, filter, searchTerm))

FilterNext ==
  \/ Messages_applyFilter
  \/ Local_applyFilter

FilterSpec == FilterInit /\ [][FilterNext]_vars

\* ---- the inline errors of the Blog editor and of the Hero editor ----------
\* Here formData of the Blog editor is followed field by field (in Spec its
\* required fields are one field, name).
Blog_requiredFields == <<"title", "excerpt", "content", "image">>

Hero_aboutFields == <<"whoIAm", "myExpertise", "myMission", "myJourney">>

\* what is typed into a required field: nothing, a blank, a word
FieldTexts == {<<>>, <<" ">>, <<"t">>}

\* validateField of BlogSection
Blog_validateField(errors, field, value) ==
  IF trim(value) = <<>> /\ field # "newTag"
  THEN errors \cup {field} ELSE errors \ {field}

\* requiredFields.forEach(field => { if (!validateField(field, ...)) isValid
\* = false }): every call starts from the validationErrors of the render in
\* which savePost was called and sets the state to its own result, so the
\* state after the k-th call is the result of that call alone
RECURSIVE savePost_forEach(_, _, _, _)
savePost_forEach(errors, formData, k, acc) ==
  IF k > Len(Blog_requiredFields) THEN acc
  ELSE LET field == Blog_requiredFields[k]
           result == Blog_validateField(errors, field, formData[field])
       IN savePost_forEach(errors, formData, k + 1,
            [errors |-> result,
             isValid |-> acc.isValid /\ field \notin result])

savePost_validation(errors, formData) ==
  savePost_forEach(errors, formData, 1, [errors |-> errors, isValid |-> TRUE])

\* ['whoIAm', ...].every(field => validateField(field, ...)): stops at the
\* first field that fails
RECURSIVE handleSave_every(_, _, _, _)
handleSave_every(errors, about, k, acc) ==
  IF k > Len(Hero_aboutFields) \/ ~acc.isValid THEN acc
  ELSE LET field == Hero_aboutFields[k]
           result == validateField(errors, field, about[field])
       IN handleSave_every(errors, about, k + 1,
            [errors |-> result, isValid |-> field \notin result])

handleSave_validation(errors, c) ==
  LET hero == validateField(errors, "heroParagraph", c.heroParagraph)
      about == handleSave_every(errors, c, 1,
                                [errors |-> hero, isValid |-> TRUE])
  IN [errors |-> about.errors,
      isValid |-> "heroParagraph" \notin hero /\ about.isValid]

\* the editor of a new post has just been opened, or the Hero editor has
\* loaded a document with nothing in it
ValidationInit ==
  /\ panel \in {"blog", "hero"}
  /\ form = [f \in {Blog_requiredFields[k] : k \in DOMAIN Blog_requiredFields}
               |-> <<>>]
  /\ content = EmptyContent
  /\ validationErrors = {}
  /\ showEditor = (panel = "blog")
  /\ server = <<>>
  /\ nextId = 1
  /\ ops = 0
  /\ reqs = <<>>
  /\ list = <<>>
  /\ isLoading = FALSE
  /\ isSaving = FALSE
  /\ isEditing = FALSE
  /\ editingId = 0
  /\ selected = <<>>
  /\ modalOpen = FALSE
  /\ toDelete = 0
  /\ filter = "all"
  /\ searchTerm = <<>>
  /\ resumeLink = <<>>
  /\ timers = <<>>
  /\ confirmed = {}
  /\ last = Quiet
  /\ isLoaded = TRUE /\ isSignedIn = TRUE
  /\ activeSection = panel
  /\ isOpen = FALSE
  /\ screen = "shell"

\* what no handler of the two editors touches before its await
validationFrame ==
  /\ UNCHANGED appVars
  /\ UNCHANGED <<searchTerm, panel, filter, confirmed, server, nextId, list,
                 isLoading, isEditing, editingId, selected, modalOpen,
                 toDelete, showEditor, resumeLink, timers>>

\* handleInputChange(field, value) of the Blog editor
Blog_setField(field, value) ==
  /\ panel = "blog" /\ showEditor
  /\ form[field] # value
  /\ form' = [form EXCEPT ![field] = value]
  /\ validationErrors' = Blog_validateField(validationErrors, field, value)
  /\ last' = Quiet
  /\ validationFrame
  /\ UNCHANGED <<content, reqs, ops, isSaving>>

\* savePost up to its first await
Blog_savePost ==
  /\ panel = "blog" /\ showEditor /\ ~isSaving
  /\ LET v == savePost_validation(validationErrors, form) IN
     /\ validationErrors' = v.errors
     /\ IF ~v.isValid
        THEN /\ last' = Completed("invalid", FALSE, 1, 0)
             /\ UNCHANGED <<reqs, ops, isSaving>>
        ELSE /\ ops < MaxOps
             /\ isSaving' = TRUE
             /\ ops' = ops + 1
             /\ reqs' = Append(reqs, Request("create", "api", 0, form, NoCap))
             /\ last' = Quiet
  /\ validationFrame
  /\ UNCHANGED <<content, form>>

\* the textarea of the hero paragraph and handleAboutChange(field, value)
Hero_setField(field, value) ==
  /\ panel = "hero"
  /\ content[field] # value
  /\ content' = [content EXCEPT ![field] = value]
  /\ validationErrors' = validateField(validationErrors, field, value)
  /\ last' = Quiet
  /\ validationFrame
  /\ UNCHANGED <<form, reqs, ops, isSaving>>

\* handleSave of the Hero editor up to the await
Hero_handleSave ==
  /\ panel = "hero" /\ ~isSaving
  /\ LET v == handleSave_validation(validationErrors, content) IN
     /\ validationErrors' = v.errors
     /\ IF ~v.isValid
        THEN /\ last' = Completed("invalid", FALSE, 1, 0)
             /\ UNCHANGED <<reqs, ops, isSaving>>
        ELSE /\ ops < MaxOps
             /\ isSaving' = TRUE
             /\ ops' = ops + 1
             /\ reqs' = Append(reqs, Request("content", "api", 1, content, NoCap))
             /\ last' = Quiet
  /\ validationFrame
  /\ UNCHANGED <<content, form>>

ValidationNext ==
  \/ \E k \in DOMAIN Blog_requiredFields :
       \E value \in FieldTexts : Blog_setField(Blog_requiredFields[k], value)
  \/ Blog_savePost
  \/ \E field \in {"heroParagraph"} \cup
                  {Hero_aboutFields[k] : k \in DOMAIN Hero_aboutFields} :
       \E value \in FieldTexts : Hero_setField(field, value)
  \/ Hero_handleSave

ValidationSpec == ValidationInit /\ [][ValidationNext]_vars

\* ---- properties -----------------------------------------------------------
\* The step consumes the answer to request i: the handler that was waiting
\* for it runs to its end or to its next await (it may start one request).
Consumed(i) ==
  /\ reqs[i].st # "sent"
  /\ \/ reqs' = RemoveAt(reqs, i)
     \/ /\ Len(reqs') = Len(reqs)
        /\ SubSeq(reqs', 1, Len(reqs') - 1) = RemoveAt(reqs, i)
        /\ reqs'[Len(reqs')].st = "sent"

\* The step sends a mutation request of one of the kinds.
Issued(kinds) ==
  /\ ops' = ops + 1
  /\ reqs' # <<>>
  /\ reqs'[Len(reqs')].kind \in kinds
  /\ reqs'[Len(reqs')].st = "sent"

Mutations == {"create", "update", "status", "patch", "toggle", "delete",
              "reorder"}

Outstanding == {i \in DOMAIN reqs : reqs[i].kind \in Mutations}

\* the record the edit form or the editor is open on; 0 if none
EditTarget ==
  IF panel = "blog" THEN (IF showEditor THEN editingId ELSE 0)
  ELSE (IF isEditing THEN editingId ELSE 0)

\* the step in which the panel handles the 2xx answer to the create request i
CreateSucceeded(i) ==
  /\ Consumed(i)
  /\ reqs[i].kind = "create" /\ reqs[i].st = "ok"
  /\ last'.op = "create" /\ last'.ok

AppendsAndResets(rec) ==
  /\ list' = Append(list, rec)
  /\ form' = EmptyForm(panel)
  /\ ~isEditing'
  /\ editingId' = 0

\* C1 as stated: when a create request succeeds, the panel appends exactly
\* the record the server returned to the end of its list, leaves the existing
\* records unchanged and resets the form to the empty create state.
C1_CreateAppendsReturnedRecord ==
  [][\A i \in DOMAIN reqs :
       CreateSucceeded(i) => AppendsAndResets(reqs[i].data[1])]_vars

\* C1 as amended: the form panels and the Skills panels append the returned
\* record and reset the form; the Blog panel does not read the answer to its
\* POST: it leaves its list alone and requests the collection again, and
\* when that load succeeds it replaces the list by the payload and closes
\* the editor with no post under edit.
C1_CreateAppendsOrReloads ==
  [][\A i \in DOMAIN reqs :
       /\ CreateSucceeded(i) =>
            IF panel = "blog"
            THEN /\ list' = list
                 /\ reqs'[Len(reqs')].kind = "refresh"
                 /\ reqs'[Len(reqs')].st = "sent"
            ELSE AppendsAndResets(reqs[i].data[1])
       /\ (Consumed(i) /\ reqs[i].kind = "refresh" /\ reqs[i].st = "ok") =>
            /\ list' = reqs[i].data
            /\ ~showEditor'
            /\ editingId' = 0]_vars

\* a Review has just been created: the returned record, with the identifier
\* the store assigned, is the last of the list and the form is empty again
C1_Witness ==
  /\ panel = "reviews"
  /\ last.op = "create" /\ last.ok
  /\ Len(list) > 1
  /\ list[Len(list)].id = last.id
  /\ last.id > NumInitial
  /\ form = EmptyForm(panel) /\ ~isEditing /\ editingId = 0

Updates == {"update", "status", "patch"}    \* PUT and PATCH of one record

\* C2: an update is not optimistic: the step that sends it leaves the list
\* alone, and the step that handles its 2xx answer replaces the record with
\* the request's id by the record the server returned and changes no other
\* record, nor the length or the order of the list.
C2_UpdateReplacesWithReturnedRecord ==
  [][/\ Issued(Updates) => list' = list
     /\ \A i \in DOMAIN reqs :
          (/\ Consumed(i)
           /\ reqs[i].kind \in Updates /\ reqs[i].st = "ok"
           /\ last'.op \in {"update", "status"} /\ last'.ok)
          => list' = MapReplace(list, reqs[i].id, reqs[i].data[1])]_vars

\* C3: no record is deleted without the user's confirmation: every DELETE
\* request in flight is for a record whose deletion was confirmed, a record
\* leaves the list by a delete only if its deletion was confirmed, and a
\* declined or cancelled confirmation sends nothing and leaves the list alone.
C3_DeleteOnlyAfterConfirmation ==
  [][/\ \A j \in DOMAIN reqs' :
          reqs'[j].kind = "delete" => reqs'[j].id \in confirmed'
     /\ (last'.op = "delete" /\ last'.ok) => last'.id \in confirmed
     /\ last'.op = "declined" => (reqs' = reqs /\ list' = list)]_vars

\* C4: once a DELETE has succeeded the record is not in the list, it is not
\* the selected message, and the edit form is not open on it.
C4_NothingRefersToDeleted ==
  [][\A i \in DOMAIN reqs :
       (/\ Consumed(i)
        /\ reqs[i].kind = "delete" /\ reqs[i].st = "ok"
        /\ last'.op = "delete")
       => /\ reqs[i].id \notin Ids(list')
          /\ SelectedId' # reqs[i].id
          /\ EditTarget' # reqs[i].id]_vars

\* C5: a failed load of the collection leaves the list as it was, raises an
\* error notification and ends with isLoading false.
C5_FailedLoadKeepsList ==
  [][\A i \in DOMAIN reqs :
       (/\ Consumed(i)
        /\ reqs[i].kind = "load" /\ reqs[i].st # "ok"
        /\ last'.op = "load")
       => /\ list' = list
          /\ last'.errs >= 1
          /\ ~isLoading']_vars

\* what the claims call a form that must not be sent: a required field is
\* empty, or the rating of a Review is outside 1..5.  (The form of the local
\* Education panel has no required field.)
MustNotBeSent(f) ==
  /\ panel # "education"
  /\ \/ f.name = ""
     \/ "text" \in DOMAIN f /\ f.text = ""
     \/ "rating" \in DOMAIN f /\ f.rating \notin 1..5

\* C6: a submit of a form that must not be sent sends nothing, leaves
\* isSaving false and leaves the list and the form as they were; a submit is
\* stopped only for that reason, so a Review with rating 5 and its required
\* fields filled in is sent.
C6_ValidationBlocksSubmit ==
  [][/\ Issued({"create", "update"}) => ~MustNotBeSent(form)
     /\ last'.op = "invalid" =>
          /\ MustNotBeSent(form)
          /\ reqs' = reqs
          /\ ~isSaving'
          /\ list' = list
          /\ form' = form]_vars

\* a Review with rating 6 and its required fields filled in was submitted and
\* stopped
C6_Witness ==
  /\ panel = "reviews"
  /\ last.op = "invalid"
  /\ form.rating = 6 /\ form.name # "" /\ form.text # ""
  /\ ~isSaving

\* the remote calls C7 lists; "status" and "refresh" are Blog's PUT of a
\* status and its load after a save
RemoteCalls == {"load", "refresh", "create", "update", "status", "delete",
                "toggle"}

\* C7: the handler of a failed remote call has raised exactly one error
\* notification for it.
C7_OneNotificationPerFailure ==
  (last.op \in RemoteCalls /\ ~last.ok) => last.errs = 1

\* C8: the step that handles the failure of a create or update request
\* leaves the form, isEditing, the editing id and the list as they are.
C8_FailedSaveKeepsForm ==
  [][\A i \in DOMAIN reqs :
       (/\ Consumed(i)
        /\ reqs[i].kind \in {"create", "update"} /\ reqs[i].st # "ok")
       => /\ form' = form
          /\ isEditing' = isEditing
          /\ editingId' = editingId
          /\ showEditor' = showEditor
          /\ list' = list]_vars

\* the update of a record has failed: the form still holds the input and is
\* still open on the record
C8_Witness ==
  /\ last.op = "update" /\ ~last.ok
  /\ form.name \in Names
  /\ isEditing /\ editingId \in Ids(list)
  /\ ~isSaving

\* C9: the step that handles a failed DELETE leaves the list and the
\* selection as they are, raises an error notification and ends with
\* isSaving false.
C9_FailedDeleteKeepsState ==
  [][\A i \in DOMAIN reqs :
       (/\ Consumed(i)
        /\ reqs[i].kind = "delete" /\ reqs[i].st # "ok"
        /\ last'.op = "delete")
       => /\ list' = list
          /\ selected' = selected
          /\ last'.errs >= 1
          /\ ~isSaving']_vars

\* C10: at most one mutation request is outstanding, and while one is,
\* isSaving is true (it is what disables the controls).
C10_OneMutationAtATime ==
  /\ Cardinality(Outstanding) <= 1
  /\ Outstanding # {} => isSaving

LoadsInFlight(q) == Cardinality({i \in DOMAIN q : q[i].kind = "load"})

\* C11: in Messages no load is cancelled (a load leaves the requests in
\* flight only when its own answer is handled, one at a time), and the
\* handling of a 2xx answer makes its payload the list, whatever the filter
\* is by then and whichever request was sent first; a failed answer leaves
\* the list alone.
C11_LastResponseWins ==
  [][panel = "messages" =>
       /\ LoadsInFlight(reqs') < LoadsInFlight(reqs) =>
            /\ last'.op = "load"
            /\ LoadsInFlight(reqs') = LoadsInFlight(reqs) - 1
       /\ \A i \in DOMAIN reqs :
            (Consumed(i) /\ reqs[i].kind = "load") =>
              list' = IF reqs[i].st = "ok" THEN reqs[i].data ELSE list]_vars

\* the filter was changed to "starred" while a load for "all" was in flight;
\* the answer for "starred" came first, the older answer came last and is
\* what the panel now holds
C11_Witness ==
  /\ panel = "messages"
  /\ last.op = "load" /\ last.ok
  /\ filter = "starred"
  /\ reqs = <<>>
  /\ \E k \in DOMAIN list : ~list[k].isStarred

\* C12: when a reorder has succeeded, the order value of every skill of the
\* list is its position (0 for the first), so the values are the dense
\* permutation 0..N-1.
C12_OrderIsPosition ==
  [][\A i \in DOMAIN reqs :
       (/\ Consumed(i)
        /\ reqs[i].kind = "reorder" /\ reqs[i].st = "ok"
        /\ last'.op = "reorder")
       => \A k \in DOMAIN list' : list'[k].order = k - 1]_vars

\* C13: the step that sends a reorder has already put the list in its new
\* order and sends the ids of the whole list in that order; the step that
\* handles a failed reorder (rejected fetch or non-2xx answer) starts a load
\* of the collection.
C13_ReorderRollsBack ==
  [][/\ Issued({"reorder"}) =>
          /\ list' # list
          /\ reqs'[Len(reqs')].body.orderedIds =
               [k \in DOMAIN list' |-> list'[k].id]
     /\ \A i \in DOMAIN reqs :
          (/\ Consumed(i)
           /\ reqs[i].kind = "reorder" /\ reqs[i].st # "ok"
           /\ last'.op = "reorder")
          => /\ reqs' # <<>>
             /\ reqs'[Len(reqs')].kind = "load"
             /\ reqs'[Len(reqs')].st = "sent"
             /\ isLoading']_vars

Toggles == {"patch", "status", "toggle"}    \* the requests that flip a flag

\* the flag a toggle request is about, as record r.id of list l holds it
FlagOf(l, r) ==
  CASE r.kind = "patch"  -> Find(l, r.id)[r.body.field]
    [] r.kind = "status" -> Find(l, r.id).status = "published"
    [] r.kind = "toggle" -> Find(l, r.id).isActive

\* the value of that flag in the render in which the toggle was clicked
ShownWhenClicked(r) ==
  CASE r.kind = "patch"  -> ~r.body.value
    [] r.kind = "status" -> Find(r.cap.posts, r.id).status = "published"
    [] r.kind = "toggle" -> r.cap.currentStatus

\* the step handles the 2xx answer to the toggle request i, and nothing has
\* changed the flag since the toggle was clicked
ToggleSucceeded(i) ==
  /\ Consumed(i)
  /\ reqs[i].kind \in Toggles /\ reqs[i].st = "ok"
  /\ last'.op \in {"update", "status", "toggle"} /\ last'.ok
  /\ reqs[i].id \in Ids(list)
  /\ FlagOf(list, reqs[i]) = ShownWhenClicked(reqs[i])

\* C14: a successful toggle that nothing else interfered with leaves the
\* flag of its record negated in the list; hence two such toggles of the
\* same flag in succession leave it at its original value.
C14_ToggleTwiceRestores ==
  [][\A i \in DOMAIN reqs :
       ToggleSucceeded(i) =>
         /\ reqs[i].id \in Ids(list')
         /\ FlagOf(list', reqs[i]) = ~FlagOf(list, reqs[i])]_vars

\* a message was starred and unstarred again: the store has revised it
\* twice and both its flags are as they were loaded
C14_Witness ==
  /\ panel = "messages"
  /\ last.op = "update" /\ last.ok
  /\ reqs = <<>>
  /\ \E k \in DOMAIN list :
       /\ list[k].id = last.id
       /\ list[k].rev = 2
       /\ ~list[k].isStarred /\ ~list[k].isRead /\ ~list[k].isArchived

\* the value a toggle request asks the store to set, as a set: empty when
\* the request names no value and leaves the choice to the store
RequestedFlag(r) ==
  CASE r.kind = "patch"  -> {r.body.value}
    [] r.kind = "status" -> {r.body.status = "published"}
    [] OTHER             -> {}

\* C15: every toggle request names the new value of the flag, and that
\* value is the negation of the flag held in the in-memory list; no toggle
\* leaves the choice of the value to the server.
C15_ToggleNegatesLocalValue ==
  [][Issued(Toggles) =>
       LET r == reqs'[Len(reqs')] IN
       RequestedFlag(r) = {~FlagOf(list, r)}]_vars

\* C16: once a message has been archived it is no longer listed under any
\* filter other than "archived".
C16_ArchivedLeavesOtherViews ==
  [][\A i \in DOMAIN reqs :
       (/\ Consumed(i)
        /\ reqs[i].kind = "patch" /\ reqs[i].st = "ok"
        /\ reqs[i].body.field = "isArchived" /\ reqs[i].body.value
        /\ last'.op = "update" /\ last'.ok
        /\ filter' # "archived")
       => reqs[i].id \notin Ids(filteredMessages(list', filter'))]_vars

\* the path of the last load the panel issued is the path every load uses
LoadPath == "api"

\* C18: a delete request goes to the collection the panel loads from, and
\* once the panel reports the delete as successful the collection a load
\* would return no longer holds the deleted identifier.
C18_DeleteReachesLoadedCollection ==
  [][/\ Issued({"delete"}) => reqs'[Len(reqs')].path = LoadPath
     /\ \A i \in DOMAIN reqs :
          (Consumed(i) /\ reqs[i].kind = "delete"
           /\ last'.op = "delete" /\ last'.ok)
          => reqs[i].id \notin Ids(StoreQuery(server', NoBody))]_vars

\* C19: while the provider has not loaded only the placeholder is rendered,
\* whatever isSignedIn is; once it has loaded and there is no session only
\* the sign-in screen is rendered; the shell and a content panel are
\* rendered only when isLoaded and isSignedIn are both true.
C19_SessionGate ==
  /\ ~isLoaded => (screen = "loading" /\ panel = "none")
  /\ (isLoaded /\ ~isSignedIn) => (screen = "signin" /\ panel = "none")
  /\ (screen = "shell" \/ panel # "none") => (isLoaded /\ isSignedIn)
  /\ (isLoaded /\ isSignedIn) => (screen = "shell" /\ panel # "none")

\* the operator has worked in a panel and the session has ended
C19_Witness ==
  /\ isLoaded /\ ~isSignedIn
  /\ activeSection = "education"
  /\ ops > 0
  /\ panel = "none"

\* the sections renderSection has a case for
C20_Cases == {"dashboard", "hero", "about", "experience", "skills",
              "education", "certificates", "projects", "messages"}

\* C20: in the shell the one mounted panel is the panel of activeSection,
\* or Dashboard when activeSection has no case; activeSection is
\* "dashboard" until the sidebar has changed it.
C20_OnePanelByActiveSection ==
  /\ screen = "shell" =>
       panel = IF activeSection \in C20_Cases THEN activeSection
               ELSE "dashboard"
  /\ \A id \in {"reviews", "blog", "settings"} :
       renderSection(id) = "dashboard"
  /\ ~isLoaded => activeSection = "dashboard"
  /\ activeSection \in MenuIds \cup {"dashboard"}

\* the sidebar has switched from another panel to Messages
C20_Witness ==
  /\ screen = "shell"
  /\ activeSection = "messages" /\ panel = "messages"
  /\ ops > 0

\* C17: filtering the list that is shown again, with the same filter and the
\* same search term, gives the list that is shown.
C17_FilterIdempotent ==
  IF panel = "messages"
  THEN filteredMessages(filteredMessages(list, filter), filter)
         = filteredMessages(list, filter)
  ELSE Local_filteredMessages(Local_filteredMessages(list, filter, searchTerm),
                              filter, searchTerm)
         = Local_filteredMessages(list, filter, searchTerm)

\* a search term and a filter have left a message out and kept another
C17_Witness ==
  /\ panel = "messagesLocal"
  /\ last.op = "filter" /\ last.id > 0
  /\ list # <<>>
  /\ searchTerm # <<>> /\ filter = "unread"

\* C21: whenever a panel mounts, after a switch of section or of session,
\* its form is empty and it is not editing, whatever the form of the panel
\* shown before held.
C21_SwitchDiscardsForm ==
  [][panel' # panel =>
       /\ form' = EmptyForm(panel')
       /\ ~isEditing' /\ editingId' = 0]_vars

\* Education is shown again after an entry had been added in it earlier
C21_Witness ==
  /\ panel = "education" /\ last.op = "mount"
  /\ nextId > NumInitial + 1
  /\ form = EmptyForm("education") /\ ~isEditing
  /\ list = <<[id |-> 1, name |-> Stored]>>

\* C25: while Messages is mounted exactly one interval is set, and it is the
\* one of the current filter and search term; a change of either starts a
\* load with the new values at once; when another panel or no panel is
\* mounted no interval is set and no load of messages is sent.
C25_OnePollingTimer ==
  [][/\ panel' = "messages" => timers' = <<Interval(filter', searchTerm')>>
     /\ panel' # "messages" =>
          /\ timers' = <<>>
          /\ \A i \in DOMAIN reqs' : "filter" \notin DOMAIN reqs'[i].body
     /\ (/\ panel = "messages" /\ panel' = "messages"
         /\ <<filter', searchTerm'>> # <<filter, searchTerm>>)
        => reqs' = Append(reqs, Request("load", "api", 0,
                                        MessagesQuery(filter', searchTerm'),
                                        NoCap))]_vars

\* filter and search term have both been changed in the mounted panel
C25_Witness ==
  /\ panel = "messages"
  /\ filter = "starred" /\ searchTerm = <<"a">>
  /\ Len(timers) = 1
  /\ reqs = <<>>

\* of the texts tried in the resume box, the one that is a URL
C22_URLs == {<<"h", ":", "x">>}

\* C22: updateResumeLink sends a request only for a link that is not empty
\* and parses as a URL; a link it rejects gets a validation message, sends
\* nothing and leaves content.resume, the modal and isSaving as they were.
\* A successful request closes the modal and stores the returned resume; a
\* failed one leaves the modal and the entered link as they were.
C22_ResumeLinkValidated ==
  [][/\ Issued({"resume"}) =>
          /\ resumeLink \in C22_URLs
          /\ reqs'[Len(reqs')].body.url = resumeLink
     /\ last'.op = "rejected" =>
          /\ resumeLink \notin C22_URLs
          /\ last'.errs = 1
          /\ reqs' = reqs
          /\ content' = content /\ modalOpen' = modalOpen
          /\ isSaving' = isSaving
     /\ \A i \in DOMAIN reqs :
          (Consumed(i) /\ reqs[i].kind = "resume") =>
            IF reqs[i].st = "ok"
            THEN /\ ~modalOpen'
                 /\ content'.resume = reqs[i].data[1].resume
                 /\ content'.resume = reqs[i].body.url
            ELSE /\ modalOpen' = modalOpen /\ resumeLink' = resumeLink
                 /\ content' = content
                 /\ last'.errs = 1]_vars

\* a link that is no URL was rejected with the modal open
C22_Witness ==
  /\ panel \in HeroPanels
  /\ last.op = "rejected"
  /\ modalOpen /\ resumeLink = <<"x">>
  /\ reqs = <<>> /\ ~isSaving

\* a link was stored and the modal has closed
C22_WitnessStored ==
  /\ panel \in HeroPanels
  /\ last.op = "resume" /\ last.ok
  /\ ~modalOpen /\ content.resume = <<"h", ":", "x">>

\* the required fields of the editor that are blank
C23_BlankRequired ==
  IF panel = "blog"
  THEN {f \in DOMAIN form : form[f] \in {<<>>, <<" ">>}}
  ELSE {f \in DOMAIN content \ {"resume"} : content[f] \in {<<>>, <<" ">>}}

\* C23: when a save is rejected because required fields are blank, the
\* fields that show an inline error afterwards are exactly the required
\* fields that are blank.
C23_EveryEmptyFieldFlagged ==
  [][last'.op = "invalid" => validationErrors' = C23_BlankRequired]_vars

\* C24: whenever isSaving is true it becomes false again (or the panel has
\* gone from the page), given that every request is answered and every
\* answer is handled.
C24_SavingEnds == (isSaving /\ Rendered) ~> (~isSaving \/ ~Rendered)

\* a toggle whose request failed has ended with isSaving false
C24_Witness ==
  /\ panel = "reviews"
  /\ last.op = "toggle" /\ ~last.ok
  /\ ~isSaving

\* C26: in the Messages panel, when no request is in flight, the selected
\* message is null or equal, flags included, to the record with its id in
\* the list.
C26_SelectedMatchesList ==
  (panel = "messages" /\ reqs = <<>> /\ selected # <<>>)
    => \E k \in DOMAIN list : list[k] = selected[1]

\* C27: in the Messages panel, once no request is in flight, every message
\* of the local list carries the flags the store holds for it.
C27_ListFlagsMatchStore ==
  (panel = "messages" /\ reqs = <<>>)
    => \A k \in DOMAIN list : \A j \in DOMAIN server :
         server[j].id = list[k].id
           => /\ list[k].isRead = server[j].isRead
              /\ list[k].isStarred = server[j].isStarred
              /\ list[k].isArchived = server[j].isArchived

\* C28: in the Blog panel a step that is not the answer of a load neither
\* brings back into the list a post the store no longer holds, nor changes
\* the status shown for a post other than the one the step is about.
C28_OverlapKeepsOtherPosts ==
  [][ (panel = "blog" /\ last'.op \notin {"load", "refresh"})
        => /\ \A k \in DOMAIN list' :
                (\A j \in DOMAIN server : server[j].id # list'[k].id)
                  => \E j \in DOMAIN list : list[j].id = list'[k].id
           /\ \A k \in DOMAIN list : \A n \in DOMAIN list' :
                (list[k].id = list'[n].id /\ list'[n].id # last'.id)
                  => list'[n].status = list[k].status ]_vars

\* C29: in the Blog panel, when savePost ends with an error notification
\* and the editor is still open, the store has not applied its POST or PUT.
\* savePost is the only sender of the second request ("refresh"), and sends
\* it only after the store has applied the POST or PUT (cap.saved).
C29_WriteApplied ==
  \E i \in DOMAIN reqs :
    /\ reqs[i].kind = "refresh"
    /\ reqs[i].cap.saved \in {"create", "update"}

C29_SaveErrorMeansNothingSaved ==
  [][ ( /\ panel = "blog"
        /\ last'.op \in {"create", "update", "refresh"}
        /\ ~last'.ok /\ last'.errs > 0
        /\ showEditor' )
        => ~C29_WriteApplied ]_vars

\* C30: in every form panel isEditing is true exactly when an editing id is
\* set, and a submit sends an update addressed to that id when isEditing is
\* true and a create addressed to the collection when it is false.
C30_FormPanels == {"reviews", "experience", "skills", "skillsModal", "education"}

C30_Submitted ==
  /\ Len(reqs') = Len(reqs) + 1
  /\ reqs'[Len(reqs')].kind \in {"create", "update"}

C30_EditModeHasId ==
  /\ [](panel \in C30_FormPanels => (isEditing <=> editingId # 0))
  /\ [][ (panel \in C30_FormPanels /\ C30_Submitted)
           => LET r == reqs'[Len(reqs')] IN
              IF isEditing
              THEN r.kind = "update" /\ r.id = editingId /\ r.id # 0
              ELSE r.kind = "create" /\ r.id = 0 ]_vars

\* an update addressed to the record under edit is in flight
C30_Witness ==
  /\ panel \in C30_FormPanels
  /\ isEditing /\ editingId # 0
  /\ \E i \in DOMAIN reqs : reqs[i].kind = "update" /\ reqs[i].id = editingId

====
